---------------------------- MODULE Spec2Model ----------------------------
(***************************************************************************)
(* A model of the tool-execution core of the MCP server template:          *)
(*   src/src/tools/base.py  ToolError, ToolResult, BaseTool.__call__,      *)
(*                          tool_retry                                     *)
(*                                                                         *)
(* One specification is given per component:                               *)
(*   SpecCall   one invocation of BaseTool.__call__ (validate, execute,    *)
(*              the three exit paths, ToolResult.to_dict)                  *)
(*   SpecRetry  one invocation of a tool_retry-wrapped operation           *)
(* and one for each of the further components, which are introduced with    *)
(* their variables below.  A component that a specification does not run    *)
(* keeps the value Unused.                                                  *)
(*                                                                         *)
(* Python values are tagged records: None, str, dict, number.  A dict is   *)
(* the set of its <<key, value>> items.  Durations and clock readings are  *)
(* integers, in tenths of a second.                                        *)
(***************************************************************************)
EXTENDS Integers, Sequences, FiniteSets, TLC

VARIABLES
    \* ---- BaseTool.__call__ ----
    clock,        \* the reading time.time() would give now
    call_pc,      \* position of the call: idle, validating, executing, returned, raised
    kwargs,       \* the keyword arguments of the call (the set of names given)
    start_time,   \* local start_time of __call__
    call_log,     \* the methods of the tool invoked so far, in order
    exec_ret,     \* what execute returned (a ToolResult, or another object), NoOutcome before
    call_exc,     \* the exception validate_parameters or execute raised, NoOutcome if none
    elapsed,      \* clock ticks since the call started (history)
    call_result,  \* the mapping __call__ returned, NoOutcome before
    call_raised,  \* the exception that left __call__, NoOutcome if none
    \* ---- tool_retry ----
    max_attempts, \* decorator argument
    delay,        \* decorator argument
    backoff,      \* decorator argument
    r_pc,         \* position of the wrapper: idle, calling, sleeping, returned, raised
    attempt,      \* loop variable of the wrapper
    current_delay,\* local current_delay
    last_exception,\* local last_exception
    r_events,     \* history: the calls of func, their outcomes and the sleeps, in order
    r_outcome,    \* what the wrapper returned or raised, NoOutcome before
    \* ---- the further components: one record of locals and history each ----
    tmo,          \* a call of a tool_timeout-wrapped operation
    vrp,          \* a call of a validate_required_params-wrapped operation
    fmt,          \* a call of format_success_response
    conc,         \* two interleaved calls of one tool_retry-wrapped operation
    reg,          \* a call of an example tool as registered with @mcp.tool
    hc,           \* a run of scripts/healthcheck.py
    ldr,          \* a call of load_tools / load_resources / load_prompts
    stats         \* a call of calculate_statistics

callVars == <<clock, call_pc, kwargs, start_time, call_log, exec_ret, call_exc,
              elapsed, call_result, call_raised>>
retryVars == <<max_attempts, delay, backoff, r_pc, attempt, current_delay,
               last_exception, r_events, r_outcome>>
extVars == <<tmo, vrp, fmt, conc, reg, hc, ldr, stats>>
vars == <<callVars, retryVars, extVars>>

\* the value of a component that is not run
Unused == [pc |-> "unused"]

\* none of the further components is run
ExtIdle ==
    /\ tmo = Unused
    /\ vrp = Unused
    /\ fmt = Unused
    /\ conc = Unused
    /\ reg = Unused
    /\ hc = Unused
    /\ ldr = Unused
    /\ stats = Unused

-----------------------------------------------------------------------------
(* Bounds of the model *)

MaxClock == 3
MaxAttempts == 3

-----------------------------------------------------------------------------
(* Python values *)

PyNone == [t |-> "none"]
Str(s) == [t |-> "str", v |-> s]
Dict(items) == [t |-> "dict", v |-> items]
Num(n) == [t |-> "num", v |-> n]

\* Python truth value testing: None, "", {} and 0 are false.
Truthy(x) ==
    CASE x.t = "none" -> FALSE
      [] x.t = "str"  -> x.v /= ""
      [] x.t = "dict" -> x.v /= {}
      [] x.t = "num"  -> x.v /= 0

\* a or b
PyOr(a, b) == IF Truthy(a) THEN a ELSE b

NoOutcome == [kind |-> "none"]


-----------------------------------------------------------------------------
(* Exceptions.  An exception object is its class, what str() gives for it,  *)
(* and, for a ToolError, the attributes its constructor sets.              *)

\* class ToolError(Exception): __init__(message, error_code, details)
ToolError(message, error_code, details) ==
    [kind |-> "exc", cls |-> "ToolError", str |-> message,
     message |-> message, error_code |-> error_code,
     details |-> PyOr(details, Dict({}))]

\* any exception that is not a ToolError: no message/error_code/details
OtherError(cls, text) ==
    [kind |-> "exc", cls |-> cls, str |-> Str(text),
     message |-> PyNone, error_code |-> PyNone, details |-> PyNone]

\* isinstance(e, ToolError)
IsToolError(e) == e.cls = "ToolError"

\* an except clause that lets a ToolError pass: the test of a retry that does
\* not retry classified failures
IsException_NotToolError(e) == e.cls \notin {"SystemExit", "ToolError"}

\* isinstance(e, Exception): SystemExit derives from BaseException only
IsException(e) == e.cls /= "SystemExit"

\* the attribute assignment of line 121 on an object that is no ToolResult
AttributeError ==
    OtherError("AttributeError", "'NoneType' object has no attribute 'execution_time'")

-----------------------------------------------------------------------------
(* ToolResult and ToolResult.to_dict *)

ToolResult(success, data, error, error_code, metadata, execution_time) ==
    [kind |-> "ToolResult", success |-> success, data |-> data, error |-> error,
     error_code |-> error_code, metadata |-> metadata,
     execution_time |-> execution_time]

\* an object returned by execute that is not a ToolResult (the abstract body returns None)
NotAToolResult == [kind |-> "object"]

IsToolResult(r) == r.kind = "ToolResult"

\* a to_dict that treats data as it treats metadata: present only when truthy
ToolResult_to_dict_DataIfTruthy(r) ==
    LET result == ("success" :> r.success) @@ ("execution_time" :> r.execution_time)
    IN  IF r.success
        THEN IF Truthy(r.data) THEN result @@ ("data" :> r.data) ELSE result
        ELSE IF Truthy(r.error_code)
             THEN result @@ ("error" :> r.error) @@ ("error_code" :> r.error_code)
             ELSE result @@ ("error" :> r.error)

ToolResult_to_dict(r) ==
    LET result == ("success" :> r.success) @@ ("execution_time" :> r.execution_time)
    IN  IF r.success
        THEN IF Truthy(r.metadata)
             THEN result @@ ("data" :> r.data) @@ ("metadata" :> r.metadata)
             ELSE result @@ ("data" :> r.data)
        ELSE IF Truthy(r.error_code)
             THEN result @@ ("error" :> r.error) @@ ("error_code" :> r.error_code)
             ELSE result @@ ("error" :> r.error)

-----------------------------------------------------------------------------
(* BaseTool.__call__: the three exit paths.  Each gives the outcome of the   *)
(* call: a returned mapping, or an exception that leaves the call.          *)

Returns(mapping) == [kind |-> "return", value |-> mapping]
Raises(e) == [kind |-> "raise", exc |-> e]

\* except ToolError as e:
OnToolError(e, start, now) ==
    ToolResult_to_dict(
        ToolResult(FALSE, PyNone, e.message, e.error_code, e.details, Num(now - start)))

\* an except Exception clause that reports the class name instead of str(e)
OnException_ClassName(e, start, now) ==
    ToolResult_to_dict(
        ToolResult(FALSE, PyNone, Str(e.cls), Str("UNEXPECTED_ERROR"), PyNone,
                   Num(now - start)))

\* except Exception as e:
OnException(e, start, now) ==
    ToolResult_to_dict(
        ToolResult(FALSE, PyNone, e.str, Str("UNEXPECTED_ERROR"), PyNone, Num(now - start)))

\* a try statement without the except Exception clause
CallHandlers_OnlyToolError(e, start, now) ==
    IF IsToolError(e) THEN Returns(OnToolError(e, start, now)) ELSE Raises(e)

\* the except clauses of the try statement, in order
CallHandlers(e, start, now) ==
    IF IsToolError(e) THEN Returns(OnToolError(e, start, now))
    ELSE IF IsException(e) THEN Returns(OnException(e, start, now))
    ELSE Raises(e)

\* a normal exit that stamps the time only when execute left it unset
OnReturn_KeepOwnTime(result, start, now) ==
    IF IsToolResult(result)
    THEN Returns(ToolResult_to_dict(
            IF result.execution_time = PyNone
            THEN [result EXCEPT !.execution_time = Num(now - start)]
            ELSE result))
    ELSE CallHandlers(AttributeError, start, now)

\* result.execution_time = time.time() - start_time; return result.to_dict()
OnReturn(result, start, now) ==
    IF IsToolResult(result)
    THEN Returns(ToolResult_to_dict([result EXCEPT !.execution_time = Num(now - start)]))
    ELSE CallHandlers(AttributeError, start, now)

-----------------------------------------------------------------------------
(* What the overridable methods of a tool can do *)

Messages == {Str("bad input")}
ErrorCodes == {Str("TOOL_ERROR"), Str("")}
DetailsGiven == {PyNone, Dict({}), Dict({<<"field", "x">>})}

ToolErrors == {ToolError(m, c, d) : m \in Messages, c \in ErrorCodes, d \in DetailsGiven}
OtherErrors == {OtherError("ValueError", "boom"), OtherError("KeyError", "'k'")}
SystemExit == OtherError("SystemExit", "")
Raisable == ToolErrors \cup OtherErrors \cup {SystemExit}

ToolResults ==
    {ToolResult(s, d, e, c, m, t) :
        s \in BOOLEAN, d \in {PyNone, Str("P")}, e \in {PyNone, Str("failed")},
        c \in {PyNone, Str(""), Str("E_FAIL")},
        m \in {PyNone, Dict({}), Dict({<<"k", "v">>})},
        t \in {PyNone, Num(7)}}
Returnable == ToolResults \cup {NotAToolResult}

KwargsGiven == {{}, {"x"}}

-----------------------------------------------------------------------------
(* BaseTool.__call__ as a process: it suspends at the two awaits *)

InitCall ==
    /\ clock = 0
    /\ call_pc = "idle"
    /\ kwargs = {}
    /\ start_time = 0
    /\ call_log = <<>>
    /\ exec_ret = NoOutcome
    /\ call_exc = NoOutcome
    /\ elapsed = 0
    /\ call_result = NoOutcome
    /\ call_raised = NoOutcome

InCall == call_pc \in {"validating", "executing"}

\* time passes; time.time() is taken not to step backwards
Tick ==
    /\ clock < MaxClock
    /\ clock' = clock + 1
    /\ elapsed' = IF InCall THEN elapsed + 1 ELSE elapsed
    /\ UNCHANGED <<call_pc, kwargs, start_time, call_log, exec_ret, call_exc,
                   call_result, call_raised>>
    /\ UNCHANGED <<retryVars, extVars>>

\* the outcome of the call is delivered to the caller
Deliver(outcome) ==
    /\ call_pc' = IF outcome.kind = "return" THEN "returned" ELSE "raised"
    /\ call_result' = IF outcome.kind = "return" THEN outcome.value ELSE NoOutcome
    /\ call_raised' = IF outcome.kind = "raise" THEN outcome.exc ELSE NoOutcome

\* start_time = time.time(); await self.validate_parameters(**kwargs)
CallStart ==
    /\ call_pc = "idle"
    /\ \E kw \in KwargsGiven : kwargs' = kw
    /\ start_time' = clock
    /\ call_pc' = "validating"
    /\ call_log' = Append(call_log, "validate_parameters")
    /\ UNCHANGED <<clock, exec_ret, call_exc, elapsed, call_result, call_raised>>
    /\ UNCHANGED <<retryVars, extVars>>

\* validate_parameters returned; result = await self.execute(**kwargs)
ValidateReturn ==
    /\ call_pc = "validating"
    /\ call_pc' = "executing"
    /\ call_log' = Append(call_log, "execute")
    /\ UNCHANGED <<clock, kwargs, start_time, exec_ret, call_exc, elapsed,
                   call_result, call_raised>>
    /\ UNCHANGED <<retryVars, extVars>>

\* a call that logs what validate_parameters raises and goes on to execute
ValidateRaise_ThenExecute ==
    /\ call_pc = "validating"
    /\ \E e \in Raisable : call_exc' = e
    /\ call_pc' = "executing"
    /\ call_log' = Append(call_log, "execute")
    /\ UNCHANGED <<clock, kwargs, start_time, exec_ret, elapsed, call_result, call_raised>>
    /\ UNCHANGED <<retryVars, extVars>>

\* validate_parameters raised
ValidateRaise ==
    /\ call_pc = "validating"
    /\ \E e \in Raisable :
        /\ call_exc' = e
        /\ Deliver(CallHandlers(e, start_time, clock))
    /\ UNCHANGED <<clock, kwargs, start_time, call_log, exec_ret, elapsed>>
    /\ UNCHANGED <<retryVars, extVars>>

\* execute returned
ExecuteReturn ==
    /\ call_pc = "executing"
    /\ \E r \in Returnable :
        /\ exec_ret' = r
        /\ Deliver(OnReturn(r, start_time, clock))
    /\ UNCHANGED <<clock, kwargs, start_time, call_log, call_exc, elapsed>>
    /\ UNCHANGED <<retryVars, extVars>>

\* execute raised
ExecuteRaise ==
    /\ call_pc = "executing"
    /\ \E e \in Raisable :
        /\ call_exc' = e
        /\ Deliver(CallHandlers(e, start_time, clock))
    /\ UNCHANGED <<clock, kwargs, start_time, call_log, exec_ret, elapsed>>
    /\ UNCHANGED <<retryVars, extVars>>

NextCall ==
    \/ Tick
    \/ CallStart
    \/ ValidateReturn
    \/ ValidateRaise
    \/ ExecuteReturn
    \/ ExecuteRaise


-----------------------------------------------------------------------------
(* tool_retry(max_attempts, delay, backoff): the wrapper around func.       *)
(* delay is in tenths of a second and backoff a whole number, so that the   *)
(* products current_delay *= backoff are exact.                             *)

Delays == {0, 5, 10}
Backoffs == {1, 2, 3}
FuncValues == {PyNone, Str("ok")}
FuncRaisable ==
    {ToolError(Str("bad input"), Str("INVALID_RATE"), PyNone),
     OtherError("ValueError", "boom"), SystemExit}

\* the history of one call of the wrapper
Event(ev, arg) == [ev |-> ev, arg |-> arg]

\* the exception object an attempt raises: a new object each time
Raised(e, n) == [obj |-> n, exc |-> e]

\* raise None
RaiseNone == Raised(OtherError("TypeError", "exceptions must derive from BaseException"), 0)

\* the wrapper is not running: its locals do not exist yet
RetryIdle ==
    /\ r_pc = "idle"
    /\ attempt = 0
    /\ current_delay = 0
    /\ last_exception = PyNone
    /\ r_events = <<>>
    /\ r_outcome = NoOutcome

InitRetry ==
    /\ max_attempts \in (-1)..MaxAttempts
    /\ delay \in Delays
    /\ backoff \in Backoffs
    /\ RetryIdle

\* a loop that runs once more than range(max_attempts)
LoopHasNext_OneMore(n, max) == n <= max

\* for attempt in range(max_attempts): is there a next value of the loop variable
LoopHasNext(n, max) == n < max

\* a test that takes the last attempt for one that can be retried
AttemptsRemain_OffByOne(n, max) == n < max

\* if attempt < max_attempts - 1
AttemptsRemain(n, max) == n < max - 1

\* a delay that grows by addition: current_delay += backoff
NextDelay_Additive(d, b) == d + b

\* current_delay *= backoff
NextDelay(d, b) == d * b

\* a wrapper that keeps the first exception: last_exception = last_exception or e
Remember_First(last, e) == IF last = PyNone THEN e ELSE last

\* last_exception = e
Remember(last, e) == e

\* a wrapper that ends with return last_exception
RaiseLast_Returns(last) == Returns(last)

\* raise last_exception: raise None is a TypeError
RaiseLast(last) == IF last = PyNone THEN Raises(RaiseNone) ELSE Raises(last)

\* wrapper(*args, **kwargs) is called: the locals are set and the loop is entered
RetryCall ==
    /\ r_pc = "idle"
    /\ last_exception' = PyNone
    /\ current_delay' = delay
    /\ attempt' = 0
    /\ IF LoopHasNext(0, max_attempts)
       THEN /\ r_pc' = "calling"
            /\ r_events' = Append(r_events, Event("call", Num(1)))
            /\ r_outcome' = r_outcome
       ELSE \* the loop body never runs: raise last_exception with last_exception None
            /\ r_pc' = IF RaiseLast(PyNone).kind = "raise" THEN "raised" ELSE "returned"
            /\ r_events' = r_events
            /\ r_outcome' = RaiseLast(PyNone)
    /\ UNCHANGED <<max_attempts, delay, backoff>>
    /\ UNCHANGED <<callVars, extVars>>

\* return await func(*args, **kwargs): the attempt returned
AttemptReturn ==
    /\ r_pc = "calling"
    /\ \E v \in FuncValues :
        /\ r_outcome' = Returns(v)
        /\ r_events' = Append(r_events, Event("return", v))
    /\ r_pc' = "returned"
    /\ UNCHANGED <<max_attempts, delay, backoff, attempt, current_delay, last_exception>>
    /\ UNCHANGED <<callVars, extVars>>

\* the attempt raised: except Exception as e, up to the sleep or the final raise
AttemptRaise ==
    /\ r_pc = "calling"
    /\ \E e \in FuncRaisable :
        LET x == Raised(e, attempt + 1)
            failed == Append(r_events, Event("raise", x))
        IN  IF ~IsException(e)
            THEN \* not caught by the except clause
                 /\ r_pc' = "raised"
                 /\ r_outcome' = Raises(x)
                 /\ r_events' = failed
                 /\ UNCHANGED <<last_exception, attempt>>
            ELSE /\ last_exception' = Remember(last_exception, x)
                 /\ IF AttemptsRemain(attempt, max_attempts)
                    THEN \* await asyncio.sleep(current_delay)
                         /\ r_pc' = "sleeping"
                         /\ r_events' = Append(failed, Event("sleep", Num(current_delay)))
                         /\ r_outcome' = r_outcome
                         /\ attempt' = attempt
                    ELSE IF LoopHasNext(attempt + 1, max_attempts)
                    THEN \* logger.error, and the for statement goes on
                         /\ r_pc' = "calling"
                         /\ r_events' = Append(failed, Event("call", Num(attempt + 2)))
                         /\ r_outcome' = r_outcome
                         /\ attempt' = attempt + 1
                    ELSE \* logger.error, the range is exhausted: raise last_exception
                         /\ r_pc' = "raised"
                         /\ r_events' = failed
                         /\ r_outcome' = Raises(last_exception')
                         /\ attempt' = attempt
    /\ UNCHANGED <<max_attempts, delay, backoff, current_delay>>
    /\ UNCHANGED <<callVars, extVars>>

\* the sleep ended: current_delay *= backoff, then the for statement takes the
\* next value of attempt, or finds the range exhausted and raise last_exception runs
SleepDone ==
    /\ r_pc = "sleeping"
    /\ current_delay' = NextDelay(current_delay, backoff)
    /\ IF LoopHasNext(attempt + 1, max_attempts)
       THEN /\ attempt' = attempt + 1
            /\ r_pc' = "calling"
            /\ r_events' = Append(r_events, Event("call", Num(attempt + 2)))
            /\ r_outcome' = r_outcome
       ELSE /\ attempt' = attempt
            /\ r_pc' = "raised"
            /\ r_events' = r_events
            /\ r_outcome' = Raises(last_exception)
    /\ UNCHANGED <<max_attempts, delay, backoff, last_exception>>
    /\ UNCHANGED <<callVars, extVars>>

NextRetry ==
    \/ RetryCall
    \/ AttemptReturn
    \/ AttemptRaise
    \/ SleepDone

-----------------------------------------------------------------------------
(* The specifications *)

\* the decorator arguments of a tool whose execute is not wrapped in tool_retry
NoRetry ==
    /\ max_attempts = 1
    /\ delay = 0
    /\ backoff = 1
    /\ RetryIdle

\* one call of a tool, from the construction of the tool on
CallInit == InitCall /\ NoRetry /\ ExtIdle

SpecCall == CallInit /\ [][NextCall]_vars

\* one call of a tool_retry-wrapped operation, for every choice of the arguments
RetryInit == InitRetry /\ InitCall /\ ExtIdle

SpecRetry == RetryInit /\ [][NextRetry]_vars

-----------------------------------------------------------------------------
(* Properties of BaseTool.__call__, checked under SpecCall *)

\* validate_parameters or execute raised e
CallRaised == call_exc /= NoOutcome

\* execute returned a ToolResult
ExecReturnedResult == exec_ret /= NoOutcome /\ IsToolResult(exec_ret)

\* the call has returned a mapping with the key success
ReturnedMapping ==
    /\ call_pc = "returned"
    /\ call_raised = NoOutcome
    /\ "success" \in DOMAIN call_result

\* the mapping carries an execution_time that is a number >= 0
TimeNonNegative ==
    /\ "execution_time" \in DOMAIN call_result
    /\ call_result.execution_time.t = "num"
    /\ call_result.execution_time.v >= 0

\* C1: __call__ never raises to its caller: whenever execute has returned (a
\* ToolResult or anything else), or validate_parameters or execute has raised a
\* ToolError or any other Exception, the call has returned a result mapping and
\* no exception has left it.
C1_NeverRaises ==
    (exec_ret /= NoOutcome \/ (CallRaised /\ IsException(call_exc))) => ReturnedMapping

C1_Witness ==
    /\ call_pc = "returned"
    /\ CallRaised
    /\ call_exc.cls = "KeyError"
    /\ Len(call_log) = 2

\* C2: when validate_parameters or execute raises an exception that is not a
\* ToolError, the returned mapping has success = false, error_code =
\* "UNEXPECTED_ERROR", error = str(e) and execution_time >= 0.
C2_UnexpectedError ==
    (CallRaised /\ IsException(call_exc) /\ ~IsToolError(call_exc)) =>
        /\ ReturnedMapping
        /\ call_result.success = FALSE
        /\ {"error", "error_code"} \subseteq DOMAIN call_result
        /\ call_result.error_code = Str("UNEXPECTED_ERROR")
        /\ call_result.error = call_exc.str
        /\ TimeNonNegative

C2_Witness ==
    /\ call_pc = "returned"
    /\ CallRaised
    /\ call_exc.cls = "ValueError"
    /\ call_result.error = Str("boom")
    /\ call_result.execution_time.v > 0

\* C3: when validate_parameters or execute raises a ToolError, the returned
\* mapping is a failure result that carries the ToolError's message, its
\* error_code and its details.
C3_ToolErrorCarried ==
    (CallRaised /\ IsToolError(call_exc)) =>
        /\ ReturnedMapping
        /\ call_result.success = FALSE
        /\ "error" \in DOMAIN call_result
        /\ call_result.error = call_exc.message
        /\ "error_code" \in DOMAIN call_result
        /\ call_result.error_code = call_exc.error_code
        /\ \/ "metadata" \in DOMAIN call_result /\ call_result.metadata = call_exc.details
           \/ "details" \in DOMAIN call_result /\ call_result.details = call_exc.details

\* C4: every returned mapping has success true and the key data, or success
\* false and both keys error and error_code.
C4_ResultShape ==
    call_pc = "returned" =>
        IF call_result.success
        THEN "data" \in DOMAIN call_result
        ELSE {"error", "error_code"} \subseteq DOMAIN call_result

\* C5 as stated: whenever execute returns normally with payload P, the mapping
\* is a success result with data = P and execution_time >= 0.
C5_AnyReturnIsSuccess ==
    ExecReturnedResult =>
        /\ ReturnedMapping
        /\ call_result.success = TRUE
        /\ "data" \in DOMAIN call_result
        /\ call_result.data = exec_ret.data
        /\ TimeNonNegative

\* C5 (amended): when validation passes and execute returns a ToolResult with
\* success = true and data = P, the mapping has success = true, data = P (the
\* key is present also when P is None) and execution_time >= 0; a ToolResult
\* returned with success = false is passed on as a failure mapping.
C5_SuccessRoundTrip ==
    ExecReturnedResult =>
        /\ ReturnedMapping
        /\ call_result.success = exec_ret.success
        /\ TimeNonNegative
        /\ exec_ret.success =>
            /\ "data" \in DOMAIN call_result
            /\ call_result.data = exec_ret.data
        /\ ~exec_ret.success => "data" \notin DOMAIN call_result

C5_Witness ==
    /\ call_pc = "returned"
    /\ ExecReturnedResult
    /\ exec_ret.success
    /\ exec_ret.data = PyNone
    /\ call_result.data = PyNone
    /\ call_result.execution_time.v > 0

\* C6: on all three exit paths the mapping's execution_time is the time elapsed
\* since the call started, whatever execution_time execute put on its
\* ToolResult.
C6_TimeStampedByWrapper ==
    call_pc = "returned" =>
        /\ "execution_time" \in DOMAIN call_result
        /\ call_result.execution_time = Num(elapsed)

C6_Witness ==
    /\ call_pc = "returned"
    /\ ExecReturnedResult
    /\ exec_ret.execution_time = Num(7)
    /\ elapsed = 2
    /\ call_result.execution_time = Num(2)

-----------------------------------------------------------------------------
(* Properties of tool_retry, checked under SpecRetry *)

IsCallEvent(x) == x.ev = "call"
IsRaiseEvent(x) == x.ev = "raise"
IsSleepEvent(x) == x.ev = "sleep"

\* the invocations of func, the attempts that raised, and the sleeps, so far
CallEvents == SelectSeq(r_events, IsCallEvent)
RaiseEvents == SelectSeq(r_events, IsRaiseEvent)
SleepEvents == SelectSeq(r_events, IsSleepEvent)

RECURSIVE Pow(_, _)
Pow(b, k) == IF k = 0 THEN 1 ELSE b * Pow(b, k - 1)

RECURSIVE SumArgs(_)
SumArgs(evs) == IF evs = <<>> THEN 0 ELSE Head(evs).arg.v + SumArgs(Tail(evs))

\* the wrapper has been called
RetryStarted == r_pc /= "idle"

\* C7: for max_attempts >= 1 the operation is invoked at least once and at most
\* max_attempts times, and an attempt that returns normally is the last thing
\* that happens: the wrapper returns that attempt's value, and no attempt or
\* sleep follows it.
C7_AttemptsBounded ==
    (max_attempts >= 1 /\ RetryStarted) =>
        /\ Len(CallEvents) >= 1
        /\ Len(CallEvents) <= max_attempts
        /\ \A i \in DOMAIN r_events :
            r_events[i].ev = "return" =>
                /\ i = Len(r_events)
                /\ r_pc = "returned"
                /\ r_outcome = Returns(r_events[i].arg)

C7_Witness ==
    /\ max_attempts = 3
    /\ r_pc = "returned"
    /\ Len(CallEvents) = 2
    /\ r_outcome = Returns(Str("ok"))

\* C8: when all max_attempts attempts raise, the wrapper raises the exception
\* object of the last attempt: the same object, so with its own class.
C8_LastExceptionRaised ==
    (max_attempts >= 1 /\ Len(RaiseEvents) = max_attempts) =>
        /\ r_pc = "raised"
        /\ r_outcome = Raises(RaiseEvents[max_attempts].arg)
        /\ r_outcome.exc.obj = max_attempts

C8_Witness ==
    /\ max_attempts = 3
    /\ r_pc = "raised"
    /\ Len(RaiseEvents) = 3
    /\ RaiseEvents[1].arg.exc.cls = "ValueError"
    /\ RaiseEvents[3].arg.exc.cls = "ToolError"
    /\ r_outcome.exc.exc.cls = "ToolError"

\* C9: after an attempt that failed with an Exception a sleep follows if and only
\* if attempts remain; the k-th sleep lasts delay * backoff^(k-1); a sleep comes
\* right after a failed attempt and, once over, right before the next attempt.
\* With max_attempts = 3, delay = 0.5 s, backoff = 2 and failures on attempts 1
\* and 2, the sleeps are 0.5 s and 1.0 s (1.5 s in all) and the value of
\* attempt 3 is returned.
C9_BackoffSleeps ==
    (max_attempts >= 1 /\ RetryStarted) =>
        /\ \A i \in DOMAIN r_events :
            (r_events[i].ev = "raise" /\ IsException(r_events[i].arg.exc)) =>
                (r_events[i].arg.obj < max_attempts
                    <=> (i < Len(r_events) /\ r_events[i + 1].ev = "sleep"))
        /\ \A i \in DOMAIN r_events :
            r_events[i].ev = "sleep" =>
                /\ i > 1
                /\ r_events[i - 1].ev = "raise"
                /\ IF i = Len(r_events)
                   THEN r_pc = "sleeping"
                   ELSE r_events[i + 1].ev = "call"
        /\ \A k \in DOMAIN SleepEvents :
            SleepEvents[k].arg = Num(delay * Pow(backoff, k - 1))
        /\ (/\ max_attempts = 3
            /\ delay = 5
            /\ backoff = 2
            /\ Len(RaiseEvents) = 2
            /\ r_pc = "returned") =>
                /\ SleepEvents = <<Event("sleep", Num(5)), Event("sleep", Num(10))>>
                /\ SumArgs(SleepEvents) = 15
                /\ Len(CallEvents) = 3
                /\ r_outcome = Returns(r_events[Len(r_events)].arg)

C9_Witness ==
    /\ max_attempts = 3
    /\ delay = 5
    /\ backoff = 2
    /\ r_pc = "returned"
    /\ Len(RaiseEvents) = 2
    /\ SumArgs(SleepEvents) = 15

\* C10: with max_attempts = 1 an operation that raises is invoked exactly once,
\* no sleep is performed, and its exception is raised to the caller.
C10_SingleAttempt ==
    (max_attempts = 1 /\ Len(RaiseEvents) >= 1) =>
        /\ Len(CallEvents) = 1
        /\ Len(SleepEvents) = 0
        /\ r_pc = "raised"
        /\ r_outcome = Raises(RaiseEvents[1].arg)

C10_Witness ==
    /\ max_attempts = 1
    /\ delay = 10
    /\ r_pc = "raised"
    /\ Len(RaiseEvents) = 1
    /\ RaiseEvents[1].arg.exc.cls = "ValueError"

-----------------------------------------------------------------------------
(* tool_timeout(seconds): wrapper around func, by asyncio.wait_for.         *)
(* The operation is given by the time it takes and by how it ends; the      *)
(* timer of wait_for is due when `seconds` have elapsed.  Both are due at   *)
(* their instant: time does not pass beyond an instant at which the         *)
(* operation ends or the timer fires.  When both fall on the same instant   *)
(* the event loop may run either first.                                     *)

MaxSeconds == 2
MaxDuration == 3

\* asyncio.TimeoutError, raised by wait_for or by the operation itself
AsyncioTimeoutError == OtherError("TimeoutError", "")

\* how the operation ends when it is left to run
OpEndings ==
    {Returns(v) : v \in FuncValues}
        \cup {Raises(e) : e \in {OtherError("ValueError", "boom"),
                                 ToolError(Str("bad input"), Str("INVALID_DURATION"), PyNone),
                                 AsyncioTimeoutError}}

\* f"Tool execution timed out after {seconds} seconds"
TimeoutMessage(seconds) ==
    Str("Tool execution timed out after " \o ToString(seconds) \o " seconds")

\* a raise that leaves out the error_code: ToolError(f"...")
TimeoutToolError_DefaultCode(seconds) ==
    ToolError(TimeoutMessage(seconds), Str("TOOL_ERROR"), PyNone)

\* raise ToolError(f"...", error_code="TIMEOUT_ERROR")
TimeoutToolError(seconds) == ToolError(TimeoutMessage(seconds), Str("TIMEOUT_ERROR"), PyNone)

\* except asyncio.TimeoutError
IsAsyncioTimeout(e) == e.cls = "TimeoutError"

\* a wrapper whose except clause also catches a ToolError from below and
\* reports it as a failure of its own
TimeoutWrapperExit_Rewraps(ending, seconds) ==
    IF ending.kind = "raise" /\ IsAsyncioTimeout(ending.exc)
    THEN Raises(TimeoutToolError(seconds))
    ELSE IF ending.kind = "raise" /\ IsToolError(ending.exc)
    THEN Raises(ToolError(Str("Tool execution failed"), Str("TOOL_ERROR"), PyNone))
    ELSE ending

\* return await asyncio.wait_for(...), with the except clause: what the wrapper
\* gives its caller when wait_for ends with `ending`
TimeoutWrapperExit(ending, seconds) ==
    IF ending.kind = "raise" /\ IsAsyncioTimeout(ending.exc)
    THEN Raises(TimeoutToolError(seconds))
    ELSE ending

\* wait_for: the timer is due
TimerDue(waited, seconds) == waited >= seconds

\* a wait_for that raises on its timer and leaves the operation running
WaitForTimesOut_Abandons(op) == op

\* wait_for on its timer: it cancels the operation it awaits and, once the
\* operation has ended on the CancelledError, raises asyncio.TimeoutError
WaitForTimesOut(op) == IF op = "running" THEN "cancelled" ELSE op

TimeoutInputs ==
    {[pc |-> "idle", seconds |-> n, duration |-> d, ending |-> x, elapsed |-> 0,
      op |-> "not started", starts |-> 0, outcome |-> NoOutcome, at |-> 0] :
        n \in 0..MaxSeconds, d \in 0..MaxDuration, x \in OpEndings}

\* wrapper(*args, **kwargs): func is called and handed to wait_for
TimeoutCall ==
    /\ tmo.pc = "idle"
    /\ tmo' = [tmo EXCEPT !.pc = "waiting", !.op = "running", !.starts = @ + 1]
    /\ UNCHANGED <<callVars, retryVars, vrp, fmt, conc, reg, hc, ldr, stats>>

\* time passes while the operation runs; a wrapper that waits does not let
\* time pass beyond the instant of its timer
TimeoutTick ==
    /\ tmo.op = "running"
    /\ tmo.elapsed < tmo.duration
    /\ tmo.pc = "waiting" => ~TimerDue(tmo.elapsed, tmo.seconds)
    /\ tmo' = [tmo EXCEPT !.elapsed = @ + 1]
    /\ UNCHANGED <<callVars, retryVars, vrp, fmt, conc, reg, hc, ldr, stats>>

\* the operation reaches its end (returns or raises): a wrapper whose timer has
\* not fired ends with it; an operation the wrapper has left ends unobserved
OpEnds ==
    /\ tmo.op = "running"
    /\ tmo.elapsed = tmo.duration
    /\ LET exit == TimeoutWrapperExit(tmo.ending, tmo.seconds)
       IN  IF tmo.pc = "waiting"
           THEN tmo' = [tmo EXCEPT !.op = "done",
                                   !.pc = IF exit.kind = "return" THEN "returned" ELSE "raised",
                                   !.outcome = exit,
                                   !.at = tmo.elapsed]
           ELSE tmo' = [tmo EXCEPT !.op = "done"]
    /\ UNCHANGED <<callVars, retryVars, vrp, fmt, conc, reg, hc, ldr, stats>>

\* the timer of wait_for fires: the operation is cancelled, wait_for raises
\* asyncio.TimeoutError and the except clause raises the ToolError
TimerFires ==
    /\ tmo.pc = "waiting"
    /\ tmo.op = "running"
    /\ TimerDue(tmo.elapsed, tmo.seconds)
    /\ tmo' = [tmo EXCEPT !.op = WaitForTimesOut(@),
                          !.pc = "raised",
                          !.outcome = TimeoutWrapperExit(Raises(AsyncioTimeoutError), tmo.seconds),
                          !.at = tmo.elapsed]
    /\ UNCHANGED <<callVars, retryVars, vrp, fmt, conc, reg, hc, ldr, stats>>

NextTimeout ==
    \/ TimeoutCall
    \/ TimeoutTick
    \/ OpEnds
    \/ TimerFires

TimeoutInit ==
    /\ InitCall
    /\ NoRetry
    /\ tmo \in TimeoutInputs
    /\ vrp = Unused
    /\ fmt = Unused
    /\ conc = Unused
    /\ reg = Unused
    /\ hc = Unused
    /\ ldr = Unused
    /\ stats = Unused

SpecTimeout == TimeoutInit /\ [][NextTimeout]_vars

\* the wrapper has given its caller an outcome
TimeoutFinished == tmo.pc \in {"returned", "raised"}

\* C11: an operation that has not completed when N seconds have elapsed makes
\* the wrapper raise, at N seconds, a ToolError with error_code "TIMEOUT_ERROR"
\* whose message names N; an operation that returns before N seconds have
\* elapsed has its own value returned by the wrapper, unchanged.
C11_TimeoutBound ==
    TimeoutFinished =>
        /\ tmo.duration > tmo.seconds =>
            /\ tmo.pc = "raised"
            /\ tmo.at = tmo.seconds
            /\ IsToolError(tmo.outcome.exc)
            /\ tmo.outcome.exc.error_code = Str("TIMEOUT_ERROR")
            /\ tmo.outcome.exc.message =
                   Str("Tool execution timed out after " \o ToString(tmo.seconds) \o " seconds")
        /\ (tmo.duration < tmo.seconds /\ tmo.ending.kind = "return") =>
            /\ tmo.pc = "returned"
            /\ tmo.outcome = tmo.ending
            /\ tmo.at = tmo.duration

C11_Witness ==
    /\ tmo.pc = "raised"
    /\ tmo.seconds = 2
    /\ tmo.duration = 3
    /\ tmo.ending.kind = "return"
    /\ tmo.op = "cancelled"
    /\ tmo.outcome.exc.error_code = Str("TIMEOUT_ERROR")

-----------------------------------------------------------------------------
(* validate_required_params: the wrapper it puts around func *)

MaxRequired == 2

ParamNames == {"a", "b", "c"}
ParamValues == {PyNone, Num(1)}

\* the required names: the sequences of distinct names, up to MaxRequired long
RequiredLists ==
    {r \in UNION {[1..n -> ParamNames] : n \in 0..MaxRequired} :
        \A i, j \in DOMAIN r : i /= j => r[i] /= r[j]}

\* the keyword arguments: the mappings from some names to values
KwargMappings == UNION {[ks -> ParamValues] : ks \in SUBSET ParamNames}

PositionalArgs == {<<>>, <<Num(1)>>}

\* ', '.join(names)
RECURSIVE Join(_)
Join(names) ==
    IF names = <<>> THEN ""
    ELSE IF Len(names) = 1 THEN names[1]
    ELSE names[1] \o ", " \o Join(Tail(names))

\* a comprehension that stops at the first absent name
RECURSIVE MissingParams_FirstOnly(_, _)
MissingParams_FirstOnly(required, kw) ==
    IF required = <<>> THEN <<>>
    ELSE IF Head(required) \notin DOMAIN kw THEN <<Head(required)>>
    ELSE MissingParams_FirstOnly(Tail(required), kw)

\* [param for param in required_params if param not in kwargs]
RECURSIVE MissingParams(_, _)
MissingParams(required, kw) ==
    IF required = <<>> THEN <<>>
    ELSE IF Head(required) \notin DOMAIN kw
         THEN <<Head(required)>> \o MissingParams(Tail(required), kw)
         ELSE MissingParams(Tail(required), kw)

\* raise ToolError(f"Missing required parameters: ...", "MISSING_PARAMETERS", details=...)
MissingToolError(missing) ==
    ToolError(Str("Missing required parameters: " \o Join(missing)),
              Str("MISSING_PARAMETERS"),
              Dict({<<"missing_parameters", missing>>}))

\* a call that forwards the keyword arguments only: func(**kwargs)
FuncCall_KwargsOnly(args, kw) == [args |-> <<>>, kwargs |-> kw]

\* func(*args, **kwargs): what func is called with
FuncCall(args, kw) == [args |-> args, kwargs |-> kw]

\* a wrapper that reports what func raises as a ToolError of its own
ValidatorExit_Wrapping(ending) ==
    IF ending.kind = "raise"
    THEN Raises(ToolError(ending.exc.str, Str("TOOL_ERROR"), PyNone))
    ELSE ending

\* return await func(*args, **kwargs): what the wrapper gives when func ends with `ending`
ValidatorExit(ending) == ending

ValidatorInputs ==
    {[pc |-> "idle", required |-> r, args |-> a, kwargs |-> kw, calls |-> 0,
      passed |-> NoOutcome, ending |-> NoOutcome, outcome |-> NoOutcome] :
        r \in RequiredLists, a \in PositionalArgs, kw \in KwargMappings}

\* wrapper(*args, **kwargs) is called: the check, then the raise or the call of func
ValidatorCall ==
    /\ vrp.pc = "idle"
    /\ LET missing_params == MissingParams(vrp.required, vrp.kwargs)
       IN  IF missing_params /= <<>>
           THEN vrp' = [vrp EXCEPT !.pc = "raised",
                                   !.outcome = Raises(MissingToolError(missing_params))]
           ELSE vrp' = [vrp EXCEPT !.pc = "calling",
                                   !.calls = @ + 1,
                                   !.passed = FuncCall(vrp.args, vrp.kwargs)]
    /\ UNCHANGED <<callVars, retryVars, tmo, fmt, conc, reg, hc, ldr, stats>>

\* func returns or raises, and the wrapper with it
ValidatedFuncEnds ==
    /\ vrp.pc = "calling"
    /\ \E x \in OpEndings :
        LET exit == ValidatorExit(x)
        IN  vrp' = [vrp EXCEPT !.pc = IF exit.kind = "return" THEN "returned" ELSE "raised",
                               !.ending = x,
                               !.outcome = exit]
    /\ UNCHANGED <<callVars, retryVars, tmo, fmt, conc, reg, hc, ldr, stats>>

NextValidator ==
    \/ ValidatorCall
    \/ ValidatedFuncEnds

ValidatorInit ==
    /\ InitCall
    /\ NoRetry
    /\ tmo = Unused
    /\ vrp \in ValidatorInputs
    /\ fmt = Unused
    /\ conc = Unused
    /\ reg = Unused
    /\ hc = Unused
    /\ ldr = Unused
    /\ stats = Unused

SpecValidator == ValidatorInit /\ [][NextValidator]_vars

\* the required names that are no key of the keyword arguments
AbsentNames == {vrp.required[i] : i \in DOMAIN vrp.required} \ DOMAIN vrp.kwargs

\* the list under the key missing_parameters of the details of the raised ToolError
ReportedMissing ==
    (CHOOSE item \in vrp.outcome.exc.details.v : item[1] = "missing_parameters")[2]

\* the position of a name in the required list
RequiredIndex(name) == CHOOSE i \in DOMAIN vrp.required : vrp.required[i] = name

\* C12: when the keyword arguments lack at least one required name, the wrapper
\* raises a ToolError with error_code "MISSING_PARAMETERS" whose details list
\* holds exactly the absent names, each once, in the order of the required
\* list, and func is not invoked.
C12_MissingReported ==
    (vrp.pc /= "idle" /\ AbsentNames /= {}) =>
        /\ vrp.pc = "raised"
        /\ vrp.calls = 0
        /\ IsToolError(vrp.outcome.exc)
        /\ vrp.outcome.exc.error_code = Str("MISSING_PARAMETERS")
        /\ \E item \in vrp.outcome.exc.details.v : item[1] = "missing_parameters"
        /\ {ReportedMissing[i] : i \in DOMAIN ReportedMissing} = AbsentNames
        /\ Len(ReportedMissing) = Cardinality(AbsentNames)
        /\ \A i, j \in DOMAIN ReportedMissing :
            i < j => RequiredIndex(ReportedMissing[i]) < RequiredIndex(ReportedMissing[j])

C12_Witness ==
    /\ vrp.pc = "raised"
    /\ vrp.required = <<"b", "a">>
    /\ DOMAIN vrp.kwargs = {"c"}
    /\ ReportedMissing = <<"b", "a">>
    /\ vrp.outcome.exc.message = Str("Missing required parameters: b, a")

\* C13: when every required name is a key of the keyword arguments, func is
\* invoked exactly once, with the positional and keyword arguments of the call,
\* and what it returns or raises is what the wrapper returns or raises.
C13_PassThrough ==
    (vrp.pc /= "idle" /\ AbsentNames = {}) =>
        /\ vrp.calls = 1
        /\ vrp.passed.args = vrp.args
        /\ vrp.passed.kwargs = vrp.kwargs
        /\ vrp.pc \in {"calling", "returned", "raised"}
        /\ vrp.pc /= "calling" =>
            /\ vrp.outcome = vrp.ending
            /\ vrp.pc = (IF vrp.ending.kind = "return" THEN "returned" ELSE "raised")

C13_Witness ==
    /\ vrp.pc = "raised"
    /\ vrp.required = <<"a", "b">>
    /\ DOMAIN vrp.kwargs = {"a", "b", "c"}
    /\ vrp.args = <<Num(1)>>
    /\ vrp.calls = 1
    /\ vrp.ending.exc.cls = "ValueError"

-----------------------------------------------------------------------------
(* format_success_response(data, message, **metadata) *)

MetadataKeys == {"precision", "tool_name", "operation"}
MetadataValues == {Num(2), Str("echo")}

\* the **metadata given: the mappings from some keys to values
MetadataGiven == UNION {[ks -> MetadataValues] : ks \in SUBSET MetadataKeys}

\* a Python dict built from keyword arguments
DictOf(kw) == Dict({<<k, kw[k]>> : k \in DOMAIN kw})

DefaultSuccessMessage == Str("Operation completed successfully")

\* a formatter that leaves metadata out when none was given
FormatSuccessResponse_OmitEmpty(data, message, metadata) ==
    IF DOMAIN metadata = {}
    THEN ("success" :> TRUE) @@ ("message" :> message) @@ ("data" :> data)
    ELSE ("success" :> TRUE) @@ ("message" :> message) @@ ("data" :> data)
            @@ ("metadata" :> DictOf(metadata))

\* return {"success": True, "message": message, "data": data, "metadata": metadata}
FormatSuccessResponse(data, message, metadata) ==
    ("success" :> TRUE) @@ ("message" :> message) @@ ("data" :> data)
        @@ ("metadata" :> DictOf(metadata))

FormatInputs ==
    {[pc |-> "idle", data |-> d, message |-> m, metadata |-> md, result |-> NoOutcome] :
        d \in {PyNone, Str("P"), Dict({}), Dict({<<"result", "work completed">>})},
        m \in {DefaultSuccessMessage, Str("Message echoed successfully")},
        md \in MetadataGiven}

\* the call of format_success_response
FormatCall ==
    /\ fmt.pc = "idle"
    /\ fmt' = [fmt EXCEPT !.pc = "returned",
                          !.result = FormatSuccessResponse(fmt.data, fmt.message, fmt.metadata)]
    /\ UNCHANGED <<callVars, retryVars, tmo, vrp, conc, reg, hc, ldr, stats>>

NextFormat == FormatCall

FormatInit ==
    /\ InitCall
    /\ NoRetry
    /\ tmo = Unused
    /\ vrp = Unused
    /\ fmt \in FormatInputs
    /\ conc = Unused
    /\ reg = Unused
    /\ hc = Unused
    /\ ldr = Unused
    /\ stats = Unused

SpecFormat == FormatInit /\ [][NextFormat]_vars

\* C14 as stated: the mapping has success = true, message and data, and the key
\* metadata is present only if at least one metadata key/value was supplied.
C14_MetadataOnlyIfGiven ==
    fmt.pc = "returned" =>
        /\ {"success", "message", "data"} \subseteq DOMAIN fmt.result
        /\ fmt.result.success = TRUE
        /\ "metadata" \in DOMAIN fmt.result => DOMAIN fmt.metadata /= {}

\* C14 (amended): the mapping has success = true, the message and the data
\* given, and always the key metadata, holding the metadata key/values supplied:
\* the empty dict when none was supplied.
C14_MetadataAlways ==
    fmt.pc = "returned" =>
        /\ DOMAIN fmt.result = {"success", "message", "data", "metadata"}
        /\ fmt.result.success = TRUE
        /\ fmt.result.message = fmt.message
        /\ fmt.result.data = fmt.data
        /\ fmt.result.metadata.t = "dict"
        /\ \A k \in MetadataKeys, v \in MetadataValues :
            <<k, v>> \in fmt.result.metadata.v
                <=> (k \in DOMAIN fmt.metadata /\ fmt.metadata[k] = v)

C14_Witness ==
    /\ fmt.pc = "returned"
    /\ DOMAIN fmt.metadata = {}
    /\ "metadata" \in DOMAIN fmt.result
    /\ fmt.result.metadata = Dict({})

-----------------------------------------------------------------------------
(* Two calls of one tool_retry-wrapped operation, interleaved at their       *)
(* awaits.  The decorator arguments live in the closure of the wrapper and   *)
(* are shared by the calls; last_exception, current_delay and attempt are    *)
(* locals of each call.                                                      *)

MaxConcAttempts == 2

Calls == {1, 2}

ConcRaisable == FuncRaisable \ {SystemExit}

\* the locals of a call that has not started
CallNotStarted ==
    [pc |-> "idle", attempt |-> 0, current_delay |-> 0, last_exception |-> PyNone,
     events |-> <<>>, outcome |-> NoOutcome]

ConcInputs ==
    {[given |-> g, closure |-> g, calls |-> [i \in Calls |-> CallNotStarted]] :
        g \in [max_attempts : 1..MaxConcAttempts, delay : {5, 10}, backoff : {2, 3}]}

\* a wrapper that grows the delay of the closure: nonlocal delay; delay *= backoff
ClosureAfterSleep_Shared(closure) == [closure EXCEPT !.delay = @ * closure.backoff]

\* current_delay *= backoff assigns the local: the closure is left as it is
ClosureAfterSleep(closure) == closure

\* call i of the wrapper starts: its locals are set and the loop is entered
ConcRetryCall(i) ==
    /\ conc.calls[i].pc = "idle"
    /\ conc' = [conc EXCEPT !.calls[i] =
          IF LoopHasNext(0, conc.closure.max_attempts)
          THEN [@ EXCEPT !.pc = "calling",
                         !.current_delay = conc.closure.delay,
                         !.events = Append(@, Event("call", Num(1)))]
          ELSE [@ EXCEPT !.pc = "raised",
                         !.current_delay = conc.closure.delay,
                         !.outcome = Raises(RaiseNone)]]
    /\ UNCHANGED <<callVars, retryVars, tmo, vrp, fmt, reg, hc, ldr, stats>>

\* the attempt of call i returned
ConcAttemptReturn(i) ==
    /\ conc.calls[i].pc = "calling"
    /\ \E v \in FuncValues :
        conc' = [conc EXCEPT !.calls[i] =
            [@ EXCEPT !.pc = "returned",
                      !.outcome = Returns(v),
                      !.events = Append(@, Event("return", v))]]
    /\ UNCHANGED <<callVars, retryVars, tmo, vrp, fmt, reg, hc, ldr, stats>>

\* the attempt of call i raised
ConcAttemptRaise(i) ==
    /\ conc.calls[i].pc = "calling"
    /\ \E e \in ConcRaisable :
        LET c == conc.calls[i]
            x == Raised(e, c.attempt + 1)
            failed == Append(c.events, Event("raise", x))
            last == Remember(c.last_exception, x)
        IN  conc' = [conc EXCEPT !.calls[i] =
                IF AttemptsRemain(c.attempt, conc.closure.max_attempts)
                THEN [c EXCEPT !.pc = "sleeping",
                               !.last_exception = last,
                               !.events = Append(failed, Event("sleep", Num(c.current_delay)))]
                ELSE IF LoopHasNext(c.attempt + 1, conc.closure.max_attempts)
                THEN [c EXCEPT !.pc = "calling",
                               !.last_exception = last,
                               !.attempt = @ + 1,
                               !.events = Append(failed, Event("call", Num(c.attempt + 2)))]
                ELSE [c EXCEPT !.pc = "raised",
                               !.last_exception = last,
                               !.events = failed,
                               !.outcome = Raises(last)]]
    /\ UNCHANGED <<callVars, retryVars, tmo, vrp, fmt, reg, hc, ldr, stats>>

\* the sleep of call i ended
ConcSleepDone(i) ==
    /\ conc.calls[i].pc = "sleeping"
    /\ LET c == conc.calls[i]
           d == NextDelay(c.current_delay, conc.closure.backoff)
       IN  conc' = [conc EXCEPT
             !.closure = ClosureAfterSleep(@),
             !.calls[i] =
                IF LoopHasNext(c.attempt + 1, conc.closure.max_attempts)
                THEN [c EXCEPT !.pc = "calling",
                               !.current_delay = d,
                               !.attempt = @ + 1,
                               !.events = Append(@, Event("call", Num(c.attempt + 2)))]
                ELSE [c EXCEPT !.pc = "raised",
                               !.current_delay = d,
                               !.outcome = Raises(c.last_exception)]]
    /\ UNCHANGED <<callVars, retryVars, tmo, vrp, fmt, reg, hc, ldr, stats>>

NextConc ==
    \/ \E i \in Calls : ConcRetryCall(i)
    \/ \E i \in Calls : ConcAttemptReturn(i)
    \/ \E i \in Calls : ConcAttemptRaise(i)
    \/ \E i \in Calls : ConcSleepDone(i)

ConcInit ==
    /\ InitCall
    /\ NoRetry
    /\ tmo = Unused
    /\ vrp = Unused
    /\ fmt = Unused
    /\ conc \in ConcInputs
    /\ reg = Unused
    /\ hc = Unused
    /\ ldr = Unused
    /\ stats = Unused

SpecConc == ConcInit /\ [][NextConc]_vars

\* what a call would hold had it run alone, from the decorator arguments as
\* given and the call's own attempts
AloneCalls(c) == Len(SelectSeq(c.events, IsCallEvent))
AloneSleeps(c) == SelectSeq(c.events, IsSleepEvent)
AloneRaises(c) == SelectSeq(c.events, IsRaiseEvent)
AloneSleepsOver(c) == Len(AloneSleeps(c)) - (IF c.pc = "sleeping" THEN 1 ELSE 0)

\* C15: concurrent calls share no mutable state: in every interleaving each
\* call's attempt count, current delay, sleeps, last exception and result are
\* what the decorator arguments and that call's own attempts give when the call
\* runs alone.
C15_CallsIndependent ==
    \A i \in Calls :
        LET c == conc.calls[i]
            g == conc.given
        IN  c.pc /= "idle" =>
            /\ AloneCalls(c) = c.attempt + 1
            /\ AloneCalls(c) <= g.max_attempts
            /\ c.current_delay = g.delay * Pow(g.backoff, AloneSleepsOver(c))
            /\ \A k \in DOMAIN AloneSleeps(c) :
                AloneSleeps(c)[k].arg = Num(g.delay * Pow(g.backoff, k - 1))
            /\ c.last_exception =
                  (IF AloneRaises(c) = <<>> THEN PyNone
                   ELSE AloneRaises(c)[Len(AloneRaises(c))].arg)
            /\ c.pc = "returned" => c.outcome = Returns(c.events[Len(c.events)].arg)
            /\ c.pc = "raised" =>
                /\ Len(AloneRaises(c)) = g.max_attempts
                /\ c.outcome = Raises(AloneRaises(c)[g.max_attempts].arg)

\* both calls are in their backoff sleep at once, each after a failure of its own
C15_Witness ==
    /\ conc.calls[1].pc = "sleeping"
    /\ conc.calls[2].pc = "sleeping"
    /\ conc.calls[1].last_exception.exc.cls = "ToolError"
    /\ conc.calls[2].last_exception.exc.cls = "ValueError"

-----------------------------------------------------------------------------
(* BaseTool.__call__ of a tool whose execute is wrapped in tool_retry: the   *)
(* await of line 118 runs the wrapper, and the call goes on when the wrapper *)
(* has returned or raised.                                                   *)

\* what an attempt of execute can return
RetriedReturnable ==
    {ToolResult(TRUE, Str("P"), PyNone, PyNone, PyNone, PyNone), NotAToolResult}

\* an await that is resumed only by a return of the awaited wrapper
WrapperEnded_ReturnOnly(pc) == pc = "returned"

\* await self.execute(**kwargs) is resumed by the return or the raise of the wrapper
WrapperEnded(pc) == pc \in {"returned", "raised"}

\* self.execute(**kwargs) enters the wrapper
ExecuteEnters ==
    /\ call_pc = "executing"
    /\ RetryCall

\* return await func(*args, **kwargs): the attempt of execute returned
RetriedAttemptReturn ==
    /\ r_pc = "calling"
    /\ \E r \in RetriedReturnable :
        /\ r_outcome' = Returns(r)
        /\ r_events' = Append(r_events, Event("return", r))
    /\ r_pc' = "returned"
    /\ UNCHANGED <<max_attempts, delay, backoff, attempt, current_delay, last_exception>>
    /\ UNCHANGED <<callVars, extVars>>

\* the wrapper has ended: line 118 gets its value, or its exception reaches
\* the except clauses
ExecuteEnds ==
    /\ call_pc = "executing"
    /\ r_pc /= "idle"
    /\ WrapperEnded(r_pc)
    /\ IF r_outcome.kind = "return"
       THEN /\ exec_ret' = r_outcome.value
            /\ call_exc' = call_exc
            /\ Deliver(OnReturn(r_outcome.value, start_time, clock))
       ELSE /\ call_exc' = r_outcome.exc.exc
            /\ exec_ret' = exec_ret
            /\ Deliver(CallHandlers(r_outcome.exc.exc, start_time, clock))
    /\ UNCHANGED <<clock, kwargs, start_time, call_log, elapsed>>
    /\ UNCHANGED <<retryVars, extVars>>

\* the steps the event loop takes once the call is made
RetriedProgress ==
    \/ ValidateReturn
    \/ ValidateRaise
    \/ ExecuteEnters
    \/ RetriedAttemptReturn
    \/ AttemptRaise
    \/ SleepDone
    \/ ExecuteEnds

NextRetried ==
    \/ Tick
    \/ CallStart
    \/ ValidateReturn
    \/ ValidateRaise
    \/ ExecuteEnters
    \/ RetriedAttemptReturn
    \/ AttemptRaise
    \/ SleepDone
    \/ ExecuteEnds

RetriedInit ==
    /\ InitCall
    /\ max_attempts \in 1..MaxAttempts
    /\ delay \in Delays
    /\ backoff \in Backoffs
    /\ RetryIdle
    /\ ExtIdle

\* every await of the call ends: validate_parameters and each attempt of
\* execute terminate, and the event loop ends each sleep
SpecRetriedCall == RetriedInit /\ [][NextRetried]_vars /\ WF_vars(RetriedProgress)

\* an exception that is no Exception has left the call
BaseExceptionLeft == call_pc = "raised" /\ ~IsException(call_raised)

\* the call has returned a mapping, a failure mapping if the wrapper gave up
RetriedCallDone ==
    /\ ReturnedMapping
    /\ r_pc = "raised" =>
        /\ call_result.success = FALSE
        /\ Len(RaiseEvents) <= max_attempts

\* C16: a call of a tool whose execute is wrapped in tool_retry(max_attempts
\* >= 1) and whose attempts each terminate eventually returns a result mapping
\* (a failure mapping when the attempts are used up), unless an exception that
\* is no Exception left it; it does not retry forever.
C16_CallTerminates == (call_pc = "validating") ~> (RetriedCallDone \/ BaseExceptionLeft)

\* every attempt failed and the call returned the failure mapping
C16_Witness ==
    /\ ReturnedMapping
    /\ call_result.success = FALSE
    /\ r_pc = "raised"
    /\ max_attempts = 3
    /\ Len(RaiseEvents) = 3
    /\ Len(SleepEvents) = 2

-----------------------------------------------------------------------------
(* The example tools as registered: @mcp.tool is put on the decorated        *)
(* function itself, so what the registered callable gives its caller is what *)
(* the decorated function returns or raises.  An input is given by the       *)
(* conditions the body tests.  Rates and draws are in hundredths.            *)

\* @tool_timeout(10) on simulate_async_work
SimulateTimeout == 10

\* @tool_retry(max_attempts=3, delay=0.5, backoff=2.0) on unreliable_operation,
\* the delay in tenths of a second
UnreliableAttempts == 3
UnreliableDelay == 5
UnreliableBackoff == 2

\* the success mapping a tool body returns
ToolSuccess(message, metadata) == Returns(FormatSuccessResponse(Str("data"), Str(message), metadata))

NoMetadata == [k \in {} |-> PyNone]

\* raise ToolError(message, error_code)
ToolRaises(message, error_code) == Raises(ToolError(Str(message), Str(error_code), PyNone))

\* the body of calculate_statistics
StatisticsBody(numbers, precision) ==
    IF numbers \in {"none", "empty"} THEN ToolRaises("Numbers list cannot be empty", "EMPTY_LIST")
    ELSE IF numbers = "not iterable"
         THEN ToolRaises("Calculation error: 'int' object is not iterable", "CALCULATION_ERROR")
    ELSE IF numbers = "not numbers" THEN ToolRaises("All items must be numbers", "INVALID_TYPE")
    ELSE IF precision < 0 \/ precision > 10
         THEN ToolRaises("Precision must be between 0 and 10", "INVALID_PRECISION")
    ELSE ToolSuccess("Statistics calculated successfully", "precision" :> Num(precision))

\* @validate_required_params(*required) around a body that ends with `ending`
RequiredParamsExit(required, kw, ending) ==
    IF MissingParams(required, kw) /= <<>>
    THEN Raises(MissingToolError(MissingParams(required, kw)))
    ELSE ValidatorExit(ending)

\* simulate_async_work up to its sleep: the raise, or NoOutcome when it sleeps
SimulateChecks(duration) ==
    IF duration < 0 THEN ToolRaises("Duration cannot be negative", "INVALID_DURATION")
    ELSE IF duration > 30 THEN ToolRaises("Duration too long (max 30 seconds)", "DURATION_TOO_LONG")
    ELSE NoOutcome

\* simulate_async_work after its sleep
SimulateAfterSleep(should_fail) ==
    IF should_fail THEN ToolRaises("Simulated failure occurred", "SIMULATED_FAILURE")
    ELSE ToolSuccess("Async work completed successfully", NoMetadata)

\* one attempt of the body of unreliable_operation, with what random.random() gave
UnreliableBody(success_rate, draw) ==
    IF ~(0 <= success_rate /\ success_rate <= 100)
    THEN ToolRaises("Success rate must be between 0.0 and 1.0", "INVALID_RATE")
    ELSE IF draw > success_rate THEN ToolRaises("Random failure occurred", "RANDOM_FAILURE")
    ELSE ToolSuccess("Unreliable operation succeeded", "success_rate" :> Num(success_rate))

\* the body of process_json_data
ProcessJsonBody(json, operation, key) ==
    IF json = "not a string"
    THEN ToolRaises("Processing error: the JSON object must be str, bytes or bytearray",
                    "PROCESSING_ERROR")
    ELSE IF json = "invalid" THEN ToolRaises("Invalid JSON", "INVALID_JSON")
    ELSE IF operation = "validate" THEN ToolSuccess("JSON validate completed successfully",
                                                    "operation" :> Str(operation))
    ELSE IF operation = "filter" /\ key
         THEN IF json \in {"array", "array of objects", "array of unordered objects"}
              THEN ToolSuccess("JSON filter completed successfully", "operation" :> Str(operation))
              ELSE ToolRaises("Filtering requires array data", "INVALID_DATA_TYPE")
    ELSE IF operation = "sort" /\ key
         THEN IF json = "array of objects"
              THEN ToolSuccess("JSON sort completed successfully", "operation" :> Str(operation))
              ELSE IF json = "array of unordered objects"
              THEN ToolRaises("Sort failed", "SORT_ERROR")
              ELSE ToolRaises("Sorting requires array of objects", "INVALID_DATA_TYPE")
    ELSE IF operation = "transform"
         THEN ToolSuccess("JSON transform completed successfully", "operation" :> Str(operation))
    ELSE ToolRaises("Unknown operation", "UNKNOWN_OPERATION")

\* the body of generate_report; json.dumps raises TypeError on data it cannot serialise
GenerateReportBody(title, format_type, data) ==
    IF title = "blank" THEN ToolRaises("Title cannot be empty", "EMPTY_TITLE")
    ELSE IF format_type \notin {"json", "text", "markdown"}
         THEN ToolRaises("Format must be json, text, or markdown", "INVALID_FORMAT")
    ELSE IF data = "not serialisable"
         THEN Raises(OtherError("TypeError", "Object of type set is not JSON serializable"))
    ELSE ToolSuccess("Report generated successfully", NoMetadata)

\* the keyword arguments of a call of calculate_statistics
StatisticsKwargs ==
    UNION {[ks -> {Str("given")}] : ks \in SUBSET {"numbers", "precision"}}

StatisticsInputs ==
    {[tool |-> "calculate_statistics", kw |-> kw, numbers |-> n, precision |-> p] :
        kw \in StatisticsKwargs,
        n \in {"none", "empty", "not iterable", "not numbers", "numbers"},
        p \in {-1, 2, 11}}

SimulateInputs ==
    {[tool |-> "simulate_async_work", duration |-> d, should_fail |-> f] :
        d \in {-1, 0, 5, 10, 20, 31}, f \in BOOLEAN}

UnreliableInputs ==
    {[tool |-> "unreliable_operation", success_rate |-> r] : r \in {-10, 0, 70, 100, 150}}

Draws == {0, 50, 99}

ProcessJsonInputs ==
    {[tool |-> "process_json_data", json |-> j, operation |-> o, key |-> k] :
        j \in {"not a string", "invalid", "object", "array", "array of objects",
               "array of unordered objects"},
        o \in {"validate", "filter", "sort", "transform", "other"},
        k \in BOOLEAN}

GenerateReportInputs ==
    {[tool |-> "generate_report", title |-> t, format_type |-> f, data |-> d] :
        t \in {"blank", "titled"}, f \in {"json", "text", "markdown", "xml"},
        d \in {"serialisable", "not serialisable"}}

RegisteredInputs ==
    {[pc |-> "idle", input |-> x, attempt |-> 0, raised |-> <<>>, sleeps |-> <<>>,
      current_delay |-> UnreliableDelay, outcome |-> NoOutcome] :
        x \in StatisticsInputs \cup SimulateInputs \cup UnreliableInputs
                \cup ProcessJsonInputs \cup GenerateReportInputs}

\* the registered callable ends with `ending`: its caller gets just that
RegisteredEnds(ending) ==
    reg' = [reg EXCEPT !.pc = IF ending.kind = "return" THEN "returned" ELSE "raised",
                       !.outcome = ending,
                       !.raised = IF ending.kind = "raise" THEN Append(@, ending.exc) ELSE @]

CallStatistics ==
    /\ reg.pc = "idle"
    /\ reg.input.tool = "calculate_statistics"
    /\ RegisteredEnds(RequiredParamsExit(<<"numbers">>, reg.input.kw,
                                         StatisticsBody(reg.input.numbers, reg.input.precision)))
    /\ UNCHANGED <<callVars, retryVars, tmo, vrp, fmt, conc, hc, ldr, stats>>

\* simulate_async_work is called under wait_for: it raises at once or sleeps
CallSimulate ==
    /\ reg.pc = "idle"
    /\ reg.input.tool = "simulate_async_work"
    /\ LET early == SimulateChecks(reg.input.duration)
       IN  IF early = NoOutcome
           THEN reg' = [reg EXCEPT !.pc = "sleeping"]
           ELSE RegisteredEnds(TimeoutWrapperExit(early, SimulateTimeout))
    /\ UNCHANGED <<callVars, retryVars, tmo, vrp, fmt, conc, hc, ldr, stats>>

\* the sleep ended before the timer of wait_for fired
SimulateEnds ==
    /\ reg.pc = "sleeping"
    /\ reg.input.duration <= SimulateTimeout
    /\ RegisteredEnds(TimeoutWrapperExit(SimulateAfterSleep(reg.input.should_fail), SimulateTimeout))
    /\ UNCHANGED <<callVars, retryVars, tmo, vrp, fmt, conc, hc, ldr, stats>>

\* the timer of wait_for fired during the sleep
SimulateTimesOut ==
    /\ reg.pc = "sleeping"
    /\ TimerDue(reg.input.duration, SimulateTimeout)
    /\ RegisteredEnds(TimeoutWrapperExit(Raises(AsyncioTimeoutError), SimulateTimeout))
    /\ UNCHANGED <<callVars, retryVars, tmo, vrp, fmt, conc, hc, ldr, stats>>

\* unreliable_operation is called: the retry loop is entered
CallUnreliable ==
    /\ reg.pc = "idle"
    /\ reg.input.tool = "unreliable_operation"
    /\ reg' = [reg EXCEPT !.pc = "calling"]
    /\ UNCHANGED <<callVars, retryVars, tmo, vrp, fmt, conc, hc, ldr, stats>>

\* one attempt of unreliable_operation, with the sleep that follows a failure
UnreliableAttempt ==
    /\ reg.pc = "calling"
    /\ \E draw \in Draws :
        LET ending == UnreliableBody(reg.input.success_rate, draw)
        IN  IF /\ ending.kind = "raise"
               /\ IsException(ending.exc)
               /\ AttemptsRemain(reg.attempt, UnreliableAttempts)
            THEN reg' = [reg EXCEPT !.attempt = @ + 1,
                                    !.raised = Append(@, ending.exc),
                                    !.sleeps = Append(@, reg.current_delay),
                                    !.current_delay = NextDelay(@, UnreliableBackoff)]
            ELSE RegisteredEnds(ending)
    /\ UNCHANGED <<callVars, retryVars, tmo, vrp, fmt, conc, hc, ldr, stats>>

CallProcessJson ==
    /\ reg.pc = "idle"
    /\ reg.input.tool = "process_json_data"
    /\ RegisteredEnds(ProcessJsonBody(reg.input.json, reg.input.operation, reg.input.key))
    /\ UNCHANGED <<callVars, retryVars, tmo, vrp, fmt, conc, hc, ldr, stats>>

CallGenerateReport ==
    /\ reg.pc = "idle"
    /\ reg.input.tool = "generate_report"
    /\ RegisteredEnds(GenerateReportBody(reg.input.title, reg.input.format_type, reg.input.data))
    /\ UNCHANGED <<callVars, retryVars, tmo, vrp, fmt, conc, hc, ldr, stats>>

NextRegistered ==
    \/ CallStatistics
    \/ CallSimulate
    \/ SimulateEnds
    \/ SimulateTimesOut
    \/ CallUnreliable
    \/ UnreliableAttempt
    \/ CallProcessJson
    \/ CallGenerateReport

RegisteredInit ==
    /\ InitCall
    /\ NoRetry
    /\ tmo = Unused
    /\ vrp = Unused
    /\ fmt = Unused
    /\ conc = Unused
    /\ reg \in RegisteredInputs
    /\ hc = Unused
    /\ ldr = Unused
    /\ stats = Unused

SpecRegistered == RegisteredInit /\ [][NextRegistered]_vars

\* a ToolError was raised during the invocation
ToolErrorRaised == \E i \in DOMAIN reg.raised : IsToolError(reg.raised[i])

\* C17: an invocation of a registered example tool during which a ToolError
\* was raised ends by returning its caller a mapping, a failure mapping with an
\* error_code unless a retry recovered; no ToolError is raised to the caller.
C17_ToolErrorRecovered ==
    (reg.pc \in {"returned", "raised"} /\ ToolErrorRaised) =>
        /\ reg.pc = "returned"
        /\ "success" \in DOMAIN reg.outcome.value
        /\ ~reg.outcome.value.success => "error_code" \in DOMAIN reg.outcome.value

-----------------------------------------------------------------------------
(* scripts/healthcheck.py: the three checks of HealthChecker, run_all_checks *)
(* and main.  A check is given by what its probe meets: the status code or   *)
(* the exception of the GET, the end of ping/list_tools, the readings of     *)
(* psutil.                                                                   *)

UnhealthyAbove == 95
WarningAbove == 80

\* what client.get(self.mcp_url) gives: a status code, or the exception raised
HttpProbes == {"200", "405", "404", "500", "TimeoutException", "ConnectError", "Exception"}

\* how ping and list_tools end under wait_for
McpProbes == {"ok", "TimeoutError", "Exception"}

\* import psutil and its readings
PsutilProbes == {"ok", "ImportError", "Exception"}
Percents == {50, 80, 81, 95, 96}

\* check_http_connectivity: the status it reports
HttpStatus(probe) == IF probe \in {"200", "405"} THEN "healthy" ELSE "unhealthy"

\* check_mcp_functionality: the status it reports
McpStatus(probe) == IF probe = "ok" THEN "healthy" ELSE "unhealthy"

\* a check that reports a failed sampling as unhealthy
ResourcesStatus_FailureUnhealthy(probe, memory_percent, cpu_percent) ==
    IF probe /= "ok" THEN "unhealthy"
    ELSE IF memory_percent > UnhealthyAbove \/ cpu_percent > UnhealthyAbove THEN "unhealthy"
    ELSE IF memory_percent > WarningAbove \/ cpu_percent > WarningAbove THEN "warning"
    ELSE "healthy"

\* check_system_resources: the status it reports
ResourcesStatus(probe, memory_percent, cpu_percent) ==
    IF probe /= "ok" THEN "warning"
    ELSE IF memory_percent > UnhealthyAbove \/ cpu_percent > UnhealthyAbove THEN "unhealthy"
    ELSE IF memory_percent > WarningAbove \/ cpu_percent > WarningAbove THEN "warning"
    ELSE "healthy"

\* a verdict that lets a warning outrank an unhealthy check
OverallStatus_WarningFirst(statuses) ==
    IF \E i \in DOMAIN statuses : statuses[i] = "warning" THEN "warning"
    ELSE IF \E i \in DOMAIN statuses : statuses[i] = "unhealthy" THEN "unhealthy"
    ELSE "healthy"

\* run_all_checks: the overall status of the statuses of the checks
OverallStatus(statuses) ==
    IF \E i \in DOMAIN statuses : statuses[i] = "unhealthy" THEN "unhealthy"
    ELSE IF \E i \in DOMAIN statuses : statuses[i] = "warning" THEN "warning"
    ELSE "healthy"

\* a main that fails the container on a warning
ExitCode_WarningFails(overall_status, failed) ==
    IF failed THEN 1
    ELSE IF overall_status = "healthy" THEN 0
    ELSE 1

\* main: the status the process exits with; sys.exit raises SystemExit, which
\* the except Exception clause does not catch, and the clause itself exits 1
ExitCode(overall_status, failed) ==
    IF failed THEN 1
    ELSE IF overall_status = "healthy" THEN 0
    ELSE IF overall_status = "warning" THEN 0
    ELSE 1

HealthInputs ==
    {[pc |-> "idle", http |-> h, mcp |-> m, psutil |-> p, memory_percent |-> mp,
      cpu_percent |-> cp, fails |-> f, checks |-> <<>>, overall_status |-> "none",
      exit |-> -1] :
        h \in HttpProbes, m \in McpProbes, p \in PsutilProbes,
        mp \in Percents, cp \in Percents, f \in BOOLEAN}

\* main calls run_all_checks, which awaits check_http_connectivity
CheckHttp ==
    /\ hc.pc = "idle"
    /\ hc' = [hc EXCEPT !.pc = "http done", !.checks = Append(@, HttpStatus(hc.http))]
    /\ UNCHANGED <<callVars, retryVars, tmo, vrp, fmt, conc, reg, ldr, stats>>

\* await self.check_mcp_functionality()
CheckMcp ==
    /\ hc.pc = "http done"
    /\ hc' = [hc EXCEPT !.pc = "mcp done", !.checks = Append(@, McpStatus(hc.mcp))]
    /\ UNCHANGED <<callVars, retryVars, tmo, vrp, fmt, conc, reg, ldr, stats>>

\* await self.check_system_resources(), and the rest of run_all_checks
CheckResources ==
    /\ hc.pc = "mcp done"
    /\ LET statuses ==
              Append(hc.checks, ResourcesStatus(hc.psutil, hc.memory_percent, hc.cpu_percent))
       IN  hc' = [hc EXCEPT !.pc = "checked",
                            !.checks = statuses,
                            !.overall_status = OverallStatus(statuses)]
    /\ UNCHANGED <<callVars, retryVars, tmo, vrp, fmt, conc, reg, ldr, stats>>

\* main reports and exits; an Exception raised on the way (fails) ends in the
\* except clause
MainExits ==
    /\ hc.pc = "checked"
    /\ hc' = [hc EXCEPT !.pc = "exited", !.exit = ExitCode(hc.overall_status, hc.fails)]
    /\ UNCHANGED <<callVars, retryVars, tmo, vrp, fmt, conc, reg, ldr, stats>>

NextHealth ==
    \/ CheckHttp
    \/ CheckMcp
    \/ CheckResources
    \/ MainExits

HealthInit ==
    /\ InitCall
    /\ NoRetry
    /\ tmo = Unused
    /\ vrp = Unused
    /\ fmt = Unused
    /\ conc = Unused
    /\ reg = Unused
    /\ hc \in HealthInputs
    /\ ldr = Unused
    /\ stats = Unused

SpecHealth == HealthInit /\ [][NextHealth]_vars

AnyCheck(status) == \E i \in DOMAIN hc.checks : hc.checks[i] = status

\* C18: the health check exits 1 exactly when one of the three checks reports
\* unhealthy or an unexpected error is raised, and exits 0 otherwise; the
\* overall verdict is unhealthy if any check is unhealthy, else warning if any
\* check is a warning, else healthy.
C18_ExitStatus ==
    hc.pc = "exited" =>
        /\ Len(hc.checks) = 3
        /\ hc.exit \in {0, 1}
        /\ hc.exit = 1 <=> (AnyCheck("unhealthy") \/ hc.fails)
        /\ hc.overall_status =
              (IF AnyCheck("unhealthy") THEN "unhealthy"
               ELSE IF AnyCheck("warning") THEN "warning"
               ELSE "healthy")

\* a warning from the resources check alone: the process exits 0
C18_Witness ==
    /\ hc.pc = "exited"
    /\ hc.checks = <<"healthy", "healthy", "warning">>
    /\ hc.overall_status = "warning"
    /\ ~hc.fails
    /\ hc.exit = 0

-----------------------------------------------------------------------------
(* load_tools, load_resources, load_prompts: one loop over a list of module  *)
(* names.  A listed module is given by how importlib.import_module ends for  *)
(* it.                                                                       *)

MaxModules == 3

Loaders == {"load_tools", "load_resources", "load_prompts"}

\* import_module returns, or raises ImportError, another Exception, or an
\* exception that is no Exception (a module that calls sys.exit)
ImportEndings == {"ok", "ImportError", "Exception", "SystemExit"}

ModuleLists == UNION {[1..n -> ImportEndings] : n \in 0..MaxModules}

\* a loop with the except ImportError clause only
LoaderCatches_ImportErrorOnly(ending) == ending = "ImportError"

\* except ImportError / except Exception: the loop goes on
LoaderCatches(ending) == ending \in {"ImportError", "Exception"}

LoaderInputs ==
    {[pc |-> "idle", loader |-> l, modules |-> m, next |-> 1, loaded |-> 0,
      attempted |-> <<>>, outcome |-> NoOutcome] :
        l \in Loaders, m \in ModuleLists}

\* the loader is called: tools_loaded = 0 and the loop is entered
LoadCall ==
    /\ ldr.pc = "idle"
    /\ ldr' = [ldr EXCEPT !.pc = "loading"]
    /\ UNCHANGED <<callVars, retryVars, tmo, vrp, fmt, conc, reg, hc, stats>>

\* one pass of the loop body: importlib.import_module(module_name)
ImportModule ==
    /\ ldr.pc = "loading"
    /\ ldr.next <= Len(ldr.modules)
    /\ LET ending == ldr.modules[ldr.next]
           tried == Append(ldr.attempted, ldr.next)
       IN  IF ending = "ok"
           THEN ldr' = [ldr EXCEPT !.next = @ + 1, !.loaded = @ + 1, !.attempted = tried]
           ELSE IF LoaderCatches(ending)
           THEN ldr' = [ldr EXCEPT !.next = @ + 1, !.attempted = tried]
           ELSE ldr' = [ldr EXCEPT !.pc = "raised", !.attempted = tried,
                                   !.outcome = Raises(OtherError(ending, ""))]
    /\ UNCHANGED <<callVars, retryVars, tmo, vrp, fmt, conc, reg, hc, stats>>

\* the list is exhausted: return tools_loaded
LoadReturn ==
    /\ ldr.pc = "loading"
    /\ ldr.next > Len(ldr.modules)
    /\ ldr' = [ldr EXCEPT !.pc = "returned", !.outcome = Returns(Num(ldr.loaded))]
    /\ UNCHANGED <<callVars, retryVars, tmo, vrp, fmt, conc, reg, hc, stats>>

NextLoader ==
    \/ LoadCall
    \/ ImportModule
    \/ LoadReturn

LoaderInit ==
    /\ InitCall
    /\ NoRetry
    /\ tmo = Unused
    /\ vrp = Unused
    /\ fmt = Unused
    /\ conc = Unused
    /\ reg = Unused
    /\ hc = Unused
    /\ ldr \in LoaderInputs
    /\ stats = Unused

SpecLoader == LoaderInit /\ [][NextLoader]_vars

\* the listed modules whose import succeeds
ImportsOk == {i \in DOMAIN ldr.modules : ldr.modules[i] = "ok"}

\* every failing import of the list raises an Exception
FailuresAreExceptions ==
    \A i \in DOMAIN ldr.modules : ldr.modules[i] \in {"ok", "ImportError", "Exception"}

-----------------------------------------------------------------------------
(* calculate_statistics: the arithmetic of its body.  A number is held as a  *)
(* whole count of hundredths; the lists are of halves, which floats hold     *)
(* exactly, and precision is 0, 1 or 2, so that every result is a whole      *)
(* count of hundredths and round() is the exact round-half-to-even.          *)

MaxNumbers == 3

NumberValues == {-50, 100, 150, 250, 300}
Precisions == {0, 1, 2}

\* numbers = [1, 2, 3, 4, 5] of sample_test_data
SampleNumbers == <<100, 200, 300, 400, 500>>

NumberLists == UNION {[1..n -> NumberValues] : n \in 1..MaxNumbers} \cup {SampleNumbers}

\* 10 ** -precision, in hundredths
Step(precision) == IF precision = 0 THEN 100 ELSE IF precision = 1 THEN 10 ELSE 1

\* the integer nearest to n / d for d > 0, a tie going to the even one
HalfEven(n, d) ==
    LET q == n \div d
        r == n % d
    IN  IF 2 * r < d THEN q
        ELSE IF 2 * r > d THEN q + 1
        ELSE IF q % 2 = 0 THEN q ELSE q + 1

\* round(n / d, precision), for n / d in hundredths
Round(n, d, precision) == Step(precision) * HalfEven(n, d * Step(precision))

\* the integer nearest to the square root of a / b, a tie going to the even one
RoundSqrt(a, b) ==
    CHOOSE r \in 0..600 :
        /\ r > 0 => (2 * r - 1) * (2 * r - 1) * b <= 4 * a
        /\ 4 * a <= (2 * r + 1) * (2 * r + 1) * b
        /\ (r > 0 /\ (2 * r - 1) * (2 * r - 1) * b = 4 * a) => r % 2 = 0
        /\ (4 * a = (2 * r + 1) * (2 * r + 1) * b) => r % 2 = 0

RECURSIVE SumOf(_)
SumOf(xs) == IF xs = <<>> THEN 0 ELSE Head(xs) + SumOf(Tail(xs))

RECURSIVE SumOfSquares(_)
SumOfSquares(xs) == IF xs = <<>> THEN 0 ELSE Head(xs) * Head(xs) + SumOfSquares(Tail(xs))

RECURSIVE Insert(_, _)
Insert(x, sorted) ==
    IF sorted = <<>> THEN <<x>>
    ELSE IF x <= Head(sorted) THEN <<x>> \o sorted
    ELSE <<Head(sorted)>> \o Insert(x, Tail(sorted))

\* sorted(numbers)
RECURSIVE Sorted(_)
Sorted(xs) == IF xs = <<>> THEN <<>> ELSE Insert(Head(xs), Sorted(Tail(xs)))

\* a median that takes the upper middle element of an even count
Median_UpperMiddle(sorted_nums) ==
    LET count == Len(sorted_nums)
        mid == count \div 2
    IN  [n |-> sorted_nums[mid + 1], d |-> 1]

\* mid = count // 2 and the if statement: the median as the fraction n / d
Median(sorted_nums) ==
    LET count == Len(sorted_nums)
        mid == count \div 2
    IN  IF count % 2 = 0
        THEN [n |-> sorted_nums[mid] + sorted_nums[mid + 1], d |-> 2]
        ELSE [n |-> sorted_nums[mid + 1], d |-> 1]

\* min(numbers), max(numbers)
MinOf(xs) == CHOOSE m \in {xs[i] : i \in DOMAIN xs} : \A i \in DOMAIN xs : m <= xs[i]
MaxOf(xs) == CHOOSE m \in {xs[i] : i \in DOMAIN xs} : \A i \in DOMAIN xs : m >= xs[i]

\* count * sum of squares - square of the sum: count ** 2 times the variance
Spread(xs) == Len(xs) * SumOfSquares(xs) - SumOf(xs) * SumOf(xs)

\* the dict stats, each number in hundredths
Statistics(numbers, precision) ==
    LET count == Len(numbers)
        median == Median(Sorted(numbers))
    IN  [count |-> count,
         sum |-> Round(SumOf(numbers), 1, precision),
         mean |-> Round(SumOf(numbers), count, precision),
         median |-> Round(median.n, median.d, precision),
         min |-> MinOf(numbers),
         max |-> MaxOf(numbers),
         std_dev |-> Step(precision)
                        * RoundSqrt(Spread(numbers),
                                    count * count * Step(precision) * Step(precision)),
         variance |-> Round(Spread(numbers), count * count * 100, precision)]

StatisticsCalls ==
    {[pc |-> "idle", numbers |-> xs, precision |-> p, data |-> NoOutcome] :
        xs \in NumberLists, p \in Precisions}

\* the call of calculate_statistics on a non-empty list of numbers
CalculateStatistics ==
    /\ stats.pc = "idle"
    /\ stats' = [stats EXCEPT !.pc = "returned",
                              !.data = Statistics(stats.numbers, stats.precision)]
    /\ UNCHANGED <<callVars, retryVars, tmo, vrp, fmt, conc, reg, hc, ldr>>

NextStatistics == CalculateStatistics

StatisticsInit ==
    /\ InitCall
    /\ NoRetry
    /\ tmo = Unused
    /\ vrp = Unused
    /\ fmt = Unused
    /\ conc = Unused
    /\ reg = Unused
    /\ hc = Unused
    /\ ldr = Unused
    /\ stats \in StatisticsCalls

SpecStatistics == StatisticsInit /\ [][NextStatistics]_vars

\* how many of the numbers are below x, and above x
Below(x) == Cardinality({i \in DOMAIN stats.numbers : stats.numbers[i] < x})
Above(x) == Cardinality({i \in DOMAIN stats.numbers : stats.numbers[i] > x})

\* twice the median of the numbers: the middle element counted twice when the
\* count is odd, the sum of the two middle elements when it is even
TwiceMiddle ==
    LET count == Len(stats.numbers)
        vals == {stats.numbers[i] : i \in DOMAIN stats.numbers}
    IN  IF count % 2 = 1
        THEN 2 * (CHOOSE m \in vals : Below(m) <= count \div 2 /\ Above(m) <= count \div 2)
        ELSE (CHOOSE a \in vals : Below(a) < count \div 2 /\ Above(a) <= count \div 2)
           + (CHOOSE b \in vals : Below(b) <= count \div 2 /\ Above(b) < count \div 2)

\* the scenario: numbers = [1, 2, 3, 4, 5], precision = 2
SampleScenario ==
    (stats.numbers = SampleNumbers /\ stats.precision = 2) =>
        /\ stats.data.mean = 300
        /\ stats.data.median = 300
        /\ stats.data.min = 100
        /\ stats.data.max = 500
        /\ stats.data.std_dev = 141

\* C20 as stated: the scenario, and in general the median returned is the
\* middle element (odd count) or the mean of the two middle elements (even
\* count), with min <= median <= max.
C20_MedianInRange ==
    stats.pc = "returned" =>
        /\ SampleScenario
        /\ 2 * stats.data.median = TwiceMiddle
        /\ stats.data.min <= stats.data.median
        /\ stats.data.median <= stats.data.max

\* C20 (amended): the scenario, and in general the median returned is the
\* middle element (odd count) or the mean of the two middle elements (even
\* count) rounded to precision decimals, so within half a unit of the last
\* decimal of it, while min and max are returned unrounded: min <= median <=
\* max holds for the unrounded median, and for the median returned whenever the
\* rounding leaves it unchanged.
C20_MedianRounded ==
    stats.pc = "returned" =>
        /\ SampleScenario
        /\ stats.data.median % Step(stats.precision) = 0
        /\ 2 * stats.data.median - TwiceMiddle <= Step(stats.precision)
        /\ TwiceMiddle - 2 * stats.data.median <= Step(stats.precision)
        /\ 2 * stats.data.min <= TwiceMiddle
        /\ TwiceMiddle <= 2 * stats.data.max
        /\ TwiceMiddle % (2 * Step(stats.precision)) = 0 =>
            /\ 2 * stats.data.median = TwiceMiddle
            /\ stats.data.min <= stats.data.median
            /\ stats.data.median <= stats.data.max

\* the scenario of the claim has been computed
C20_Witness ==
    /\ stats.pc = "returned"
    /\ stats.numbers = SampleNumbers
    /\ stats.precision = 2
    /\ stats.data.std_dev = 141
    /\ stats.data.median = 300

-----------------------------------------------------------------------------
(* The order of validate_parameters and execute in BaseTool.__call__,        *)
(* under SpecCall                                                            *)

\* execute has been invoked in this call
ExecuteInvoked == \E i \in DOMAIN call_log : call_log[i] = "execute"

\* execute is invoked at most once, and only after validate_parameters
ExecuteAfterValidate ==
    /\ Len(call_log) <= 2
    /\ \A i \in DOMAIN call_log :
        call_log[i] = (IF i = 1 THEN "validate_parameters" ELSE "execute")
    /\ call_pc = "validating" => ~ExecuteInvoked

\* a step in which validate_parameters raises ends the call without execute,
\* and a call that has ended invokes nothing more
ValidateRaiseEndsCall ==
    /\ (call_pc = "validating" /\ call_exc' /= call_exc) =>
            /\ call_pc' \in {"returned", "raised"}
            /\ ~ExecuteInvoked'
    /\ call_pc \in {"returned", "raised"} => call_log' = call_log
    /\ (call_pc = "validating" /\ call_pc' = "executing") => call_exc' = NoOutcome

\* C21: validate_parameters runs to completion before execute starts, and when
\* validate_parameters raises (a ToolError or any other exception) execute is
\* never invoked for that call.
C21_ValidateBeforeExecute == []ExecuteAfterValidate /\ [][ValidateRaiseEndsCall]_vars

\* validate_parameters raised a ToolError and the call ended without execute
C21_Witness ==
    /\ call_pc = "returned"
    /\ CallRaised
    /\ IsToolError(call_exc)
    /\ call_log = <<"validate_parameters">>

-----------------------------------------------------------------------------
(* The retries of unreliable_operation as registered, under SpecRegistered *)

UnreliableFinished ==
    reg.input.tool = "unreliable_operation" /\ reg.pc \in {"returned", "raised"}

\* C22: tool_retry retries a ToolError whatever it reports: a call of
\* unreliable_operation sleeps after each failed attempt but the third, 0.5 s
\* and then 1.0 s, whether the failure is RANDOM_FAILURE or INVALID_RATE; with a
\* success_rate outside [0.0, 1.0] it is attempted 3 times, with both sleeps,
\* before the INVALID_RATE ToolError of the third attempt reaches the caller.
C22_PermanentErrorRetried ==
    UnreliableFinished =>
        /\ reg.attempt + 1 <= UnreliableAttempts
        /\ reg.sleeps = SubSeq(<<5, 10>>, 1, reg.attempt)
        /\ reg.pc = "returned" => Len(reg.raised) = reg.attempt
        /\ reg.pc = "raised" =>
            /\ reg.attempt + 1 = 3
            /\ Len(reg.raised) = 3
            /\ reg.outcome.exc = reg.raised[3]
        /\ ~(0 <= reg.input.success_rate /\ reg.input.success_rate <= 100) =>
            /\ reg.pc = "raised"
            /\ reg.sleeps = <<5, 10>>
            /\ \A i \in 1..3 : reg.raised[i].error_code = Str("INVALID_RATE")
            /\ reg.outcome.exc.error_code = Str("INVALID_RATE")

C22_Witness ==
    /\ reg.pc = "raised"
    /\ reg.input.tool = "unreliable_operation"
    /\ reg.input.success_rate = 150
    /\ reg.attempt = 2
    /\ reg.sleeps = <<5, 10>>
    /\ reg.outcome.exc.error_code = Str("INVALID_RATE")

-----------------------------------------------------------------------------
(* tool_timeout(N) applied twice to one operation: the outer wait_for waits  *)
(* for the inner wrapper, the inner wait_for for the operation.  Both timers *)
(* are set at the instant of the call and are due at the same instant; the   *)
(* event loop may run either first, and either before or after an operation  *)
(* that ends at that instant.                                                *)

TwiceInputs ==
    {[pc |-> "idle", seconds |-> n, duration |-> d, ending |-> x, elapsed |-> 0,
      op |-> "not started", starts |-> 0, outcome |-> NoOutcome, at |-> 0,
      inner |-> "idle", inner_outcome |-> NoOutcome] :
        n \in 0..MaxSeconds, d \in 0..MaxDuration, x \in OpEndings}

\* the outer wrapper is called: it calls the inner wrapper, which calls func
TwiceCall ==
    /\ tmo.pc = "idle"
    /\ tmo' = [tmo EXCEPT !.pc = "waiting", !.inner = "waiting", !.op = "running",
                          !.starts = @ + 1]
    /\ UNCHANGED <<callVars, retryVars, vrp, fmt, conc, reg, hc, ldr, stats>>

\* time passes while both wrappers wait
TwiceTick ==
    /\ tmo.pc = "waiting"
    /\ tmo.inner = "waiting"
    /\ tmo.elapsed < tmo.duration
    /\ ~TimerDue(tmo.elapsed, tmo.seconds)
    /\ tmo' = [tmo EXCEPT !.elapsed = @ + 1]
    /\ UNCHANGED <<callVars, retryVars, vrp, fmt, conc, reg, hc, ldr, stats>>

\* the operation ends before the inner timer has fired: the inner wrapper ends
TwiceOpEnds ==
    /\ tmo.pc = "waiting"
    /\ tmo.inner = "waiting"
    /\ tmo.op = "running"
    /\ tmo.elapsed = tmo.duration
    /\ tmo' = [tmo EXCEPT !.op = "done", !.inner = "ended",
                          !.inner_outcome = TimeoutWrapperExit(tmo.ending, tmo.seconds)]
    /\ UNCHANGED <<callVars, retryVars, vrp, fmt, conc, reg, hc, ldr, stats>>

\* the timer of the inner wait_for fires: the operation is cancelled and the
\* inner wrapper raises its ToolError
TwiceInnerFires ==
    /\ tmo.pc = "waiting"
    /\ tmo.inner = "waiting"
    /\ tmo.op = "running"
    /\ TimerDue(tmo.elapsed, tmo.seconds)
    /\ tmo' = [tmo EXCEPT !.op = "cancelled", !.inner = "ended",
                          !.inner_outcome =
                              TimeoutWrapperExit(Raises(AsyncioTimeoutError), tmo.seconds)]
    /\ UNCHANGED <<callVars, retryVars, vrp, fmt, conc, reg, hc, ldr, stats>>

\* the timer of the outer wait_for fires before the outer wait_for has got the
\* end of the inner wrapper: what still runs is cancelled, the outer wrapper raises
TwiceOuterFires ==
    /\ tmo.pc = "waiting"
    /\ tmo.inner \in {"waiting", "ended"}
    /\ TimerDue(tmo.elapsed, tmo.seconds)
    /\ LET exit == TimeoutWrapperExit(Raises(AsyncioTimeoutError), tmo.seconds)
       IN  tmo' = [tmo EXCEPT !.op = IF @ = "running" THEN "cancelled" ELSE @,
                              !.inner = IF @ = "waiting" THEN "cancelled" ELSE @,
                              !.pc = "raised", !.outcome = exit, !.at = tmo.elapsed]
    /\ UNCHANGED <<callVars, retryVars, vrp, fmt, conc, reg, hc, ldr, stats>>

\* the outer wait_for gets what the inner wrapper returned or raised
TwiceInnerEnds ==
    /\ tmo.pc = "waiting"
    /\ tmo.inner = "ended"
    /\ LET exit == TimeoutWrapperExit(tmo.inner_outcome, tmo.seconds)
       IN  tmo' = [tmo EXCEPT !.pc = IF exit.kind = "return" THEN "returned" ELSE "raised",
                              !.outcome = exit, !.at = tmo.elapsed]
    /\ UNCHANGED <<callVars, retryVars, vrp, fmt, conc, reg, hc, ldr, stats>>

NextTwice ==
    \/ TwiceCall
    \/ TwiceTick
    \/ TwiceOpEnds
    \/ TwiceInnerFires
    \/ TwiceOuterFires
    \/ TwiceInnerEnds

TwiceInit ==
    /\ InitCall
    /\ NoRetry
    /\ tmo \in TwiceInputs
    /\ vrp = Unused
    /\ fmt = Unused
    /\ conc = Unused
    /\ reg = Unused
    /\ hc = Unused
    /\ ldr = Unused
    /\ stats = Unused

SpecTimeoutTwice == TwiceInit /\ [][NextTwice]_vars

\* what the operation wrapped once can give its caller: the exit of OpEnds
\* when the operation ends by the bound, that of TimerFires when the timer is due
SingleWrapOutcomes(duration, ending, seconds) ==
    (IF duration <= seconds THEN {TimeoutWrapperExit(ending, seconds)} ELSE {})
        \cup (IF TimerDue(duration, seconds)
              THEN {TimeoutWrapperExit(Raises(AsyncioTimeoutError), seconds)}
              ELSE {})

\* the operation raises asyncio.TimeoutError of its own
OwnTimeout == tmo.ending.kind = "raise" /\ IsAsyncioTimeout(tmo.ending.exc)

\* C23: the operation wrapped twice in tool_timeout(N) gives its caller an
\* outcome the operation wrapped once can give: its own result or exception
\* when it ends within N seconds, a ToolError TIMEOUT_ERROR naming N when it
\* does not; and the operation is started exactly once.
C23_TimeoutIdempotent ==
    tmo.pc \in {"returned", "raised"} =>
        /\ tmo.starts = 1
        /\ tmo.outcome \in SingleWrapOutcomes(tmo.duration, tmo.ending, tmo.seconds)
        /\ (tmo.duration < tmo.seconds /\ ~OwnTimeout) => tmo.outcome = tmo.ending
        /\ tmo.duration > tmo.seconds =>
            /\ tmo.pc = "raised"
            /\ IsToolError(tmo.outcome.exc)
            /\ tmo.outcome.exc.error_code = Str("TIMEOUT_ERROR")
            /\ tmo.outcome.exc.message = TimeoutMessage(tmo.seconds)

\* the inner timer fired first and the outer wrapper passed the ToolError on
C23_Witness ==
    /\ tmo.pc = "raised"
    /\ tmo.inner = "ended"
    /\ tmo.op = "cancelled"
    /\ tmo.duration = 3
    /\ tmo.seconds = 2
    /\ tmo.outcome = tmo.inner_outcome
    /\ tmo.outcome.exc.error_code = Str("TIMEOUT_ERROR")

-----------------------------------------------------------------------------
(* What becomes of the operation when the bound of tool_timeout fires, under *)
(* SpecTimeout                                                               *)

\* the wrapper raised its ToolError because the timer of wait_for fired
BoundFired ==
    /\ tmo.pc = "raised"
    /\ tmo.outcome = Raises(TimeoutToolError(tmo.seconds))
    /\ ~OwnTimeout

\* C24 as stated: when the bound fires no cancellation reaches the operation:
\* the wrapper raises TIMEOUT_ERROR and leaves the operation in flight.
C24_OperationAbandoned == BoundFired => tmo.op = "running"

\* C24 (amended): when the bound fires wait_for cancels the operation in
\* flight, and the wrapper raises TIMEOUT_ERROR with the operation cancelled:
\* in no state after the raise is the operation running or at its end.
C24_OperationCancelled == BoundFired => tmo.op = "cancelled"

\* the bound of 1 s fired on an operation of 3 s that would have returned
C24_Witness ==
    /\ BoundFired
    /\ tmo.seconds = 1
    /\ tmo.duration = 3
    /\ tmo.elapsed = 1
    /\ tmo.ending.kind = "return"
    /\ tmo.op = "cancelled"

-----------------------------------------------------------------------------
(* tool_timeout(N) and tool_retry stacked on one operation, in either order. *)
(* Times are whole seconds.  An attempt is given by how long the operation   *)
(* takes in it and whether it raises at its end.  wait_for's timer runs from *)
(* the call of the tool_timeout wrapper: from the start of each attempt when *)
(* tool_retry is outside, from the start of the call when tool_timeout is.   *)

MaxComposedAttempts == 2

Orders == {"retry outside", "timeout outside"}

AttemptPlans ==
    UNION {[1..n -> [duration : 0..MaxDuration, fails : BOOLEAN]] : n \in 1..MaxComposedAttempts}

ComposedInputs ==
    {[pc |-> "idle", order |-> o, seconds |-> n, max_attempts |-> Len(p), delay |-> d,
      backoff |-> 2, plan |-> p, attempt |-> 0, current_delay |-> d, waited |-> 0,
      ran |-> 0, total |-> 0, last_exception |-> PyNone, events |-> <<>>,
      outcome |-> NoOutcome] :
        o \in Orders, n \in 1..MaxSeconds, d \in {0, 1}, p \in AttemptPlans}

\* a stack in which one timer runs on whatever the order
WaitedAtAttempt_OneTimer(order, waited) == waited

\* the time the timer has run when an attempt starts: with tool_retry outside
\* the attempt calls the tool_timeout wrapper, which starts a new wait_for
WaitedAtAttempt(order, waited) == IF order = "retry outside" THEN 0 ELSE waited

\* a timer of wait_for is running
TimerRuns(c) == c.order = "timeout outside" \/ c.pc = "attempt"

\* how long the current attempt or sleep takes when left alone
PhaseLength(c) ==
    IF c.pc = "attempt" THEN c.plan[c.attempt + 1].duration ELSE c.current_delay

ComposedEvent(ev, c) == [ev |-> ev, n |-> c.attempt + 1, ran |-> c.ran, at |-> c.total]

\* except Exception as e in the retry loop, for the exception e of an attempt:
\* the sleep when attempts remain, else raise last_exception
AttemptFailed(c, ev, e) ==
    IF AttemptsRemain(c.attempt, c.max_attempts)
    THEN [c EXCEPT !.pc = "sleeping", !.ran = 0,
                   !.last_exception = Remember(@, e),
                   !.events = Append(Append(@, ComposedEvent(ev, c)),
                                     [ev |-> "sleep", n |-> c.attempt + 1,
                                      ran |-> c.current_delay, at |-> c.total])]
    ELSE [c EXCEPT !.pc = "raised",
                   !.last_exception = Remember(@, e),
                   !.events = Append(@, ComposedEvent(ev, c)),
                   !.outcome = Raises(e)]

\* the stacked wrapper is called: the first attempt starts
ComposedCall ==
    /\ tmo.pc = "idle"
    /\ tmo' = [tmo EXCEPT !.pc = "attempt",
                          !.events = Append(@, ComposedEvent("call", tmo))]
    /\ UNCHANGED <<callVars, retryVars, vrp, fmt, conc, reg, hc, ldr, stats>>

\* a second passes during an attempt or a sleep
ComposedTick ==
    /\ tmo.pc \in {"attempt", "sleeping"}
    /\ tmo.ran < PhaseLength(tmo)
    /\ TimerRuns(tmo) => ~TimerDue(tmo.waited, tmo.seconds)
    /\ tmo' = [tmo EXCEPT !.ran = @ + 1, !.waited = @ + 1, !.total = @ + 1]
    /\ UNCHANGED <<callVars, retryVars, vrp, fmt, conc, reg, hc, ldr, stats>>

\* the operation reaches its end in this attempt
ComposedAttemptEnds ==
    /\ tmo.pc = "attempt"
    /\ tmo.ran = PhaseLength(tmo)
    /\ IF tmo.plan[tmo.attempt + 1].fails
       THEN tmo' = AttemptFailed(tmo, "raise", OtherError("ValueError", "boom"))
       ELSE tmo' = [tmo EXCEPT !.pc = "returned",
                               !.events = Append(@, ComposedEvent("return", tmo)),
                               !.outcome = Returns(Str("ok"))]
    /\ UNCHANGED <<callVars, retryVars, vrp, fmt, conc, reg, hc, ldr, stats>>

\* tool_retry outside: the timer of the attempt's wait_for fires, the operation
\* is cancelled and the attempt raises the ToolError of the tool_timeout wrapper
ComposedAttemptTimesOut ==
    /\ tmo.pc = "attempt"
    /\ tmo.order = "retry outside"
    /\ TimerDue(tmo.waited, tmo.seconds)
    /\ tmo' = AttemptFailed(tmo, "timeout",
                            TimeoutWrapperExit(Raises(AsyncioTimeoutError), tmo.seconds).exc)
    /\ UNCHANGED <<callVars, retryVars, vrp, fmt, conc, reg, hc, ldr, stats>>

\* the sleep of the retry loop ends: current_delay *= backoff, the next attempt starts
ComposedSleepEnds ==
    /\ tmo.pc = "sleeping"
    /\ tmo.ran = PhaseLength(tmo)
    /\ LET next == [tmo EXCEPT !.pc = "attempt", !.attempt = @ + 1, !.ran = 0,
                               !.current_delay = NextDelay(@, tmo.backoff),
                               !.waited = WaitedAtAttempt(tmo.order, @)]
       IN  tmo' = [next EXCEPT !.events = Append(@, ComposedEvent("call", next))]
    /\ UNCHANGED <<callVars, retryVars, vrp, fmt, conc, reg, hc, ldr, stats>>

\* tool_timeout outside: the timer of the one wait_for fires during an attempt
\* or a sleep; the retry loop is cancelled where it waits (CancelledError is no
\* Exception) and the wrapper raises its ToolError
ComposedBoundFires ==
    /\ tmo.pc \in {"attempt", "sleeping"}
    /\ tmo.order = "timeout outside"
    /\ TimerDue(tmo.waited, tmo.seconds)
    /\ tmo' = [tmo EXCEPT !.pc = "raised",
                          !.events = Append(@, ComposedEvent("bound", tmo)),
                          !.outcome = TimeoutWrapperExit(Raises(AsyncioTimeoutError),
                                                         tmo.seconds)]
    /\ UNCHANGED <<callVars, retryVars, vrp, fmt, conc, reg, hc, ldr, stats>>

NextComposed ==
    \/ ComposedCall
    \/ ComposedTick
    \/ ComposedAttemptEnds
    \/ ComposedAttemptTimesOut
    \/ ComposedSleepEnds
    \/ ComposedBoundFires

ComposedInit ==
    /\ InitCall
    /\ NoRetry
    /\ tmo \in ComposedInputs
    /\ vrp = Unused
    /\ fmt = Unused
    /\ conc = Unused
    /\ reg = Unused
    /\ hc = Unused
    /\ ldr = Unused
    /\ stats = Unused

SpecComposed == ComposedInit /\ [][NextComposed]_vars

ComposedStarts == {i \in DOMAIN tmo.events : tmo.events[i].ev = "call"}

\* tool_retry outside: every attempt has a bound of its own
BoundPerAttempt ==
    /\ tmo.pc = "attempt" => tmo.ran <= tmo.seconds
    /\ \A i \in DOMAIN tmo.events :
        LET x == tmo.events[i]
        IN  /\ x.ev \in {"return", "raise"} => x.ran <= tmo.seconds
            /\ x.ev = "timeout" =>
                /\ x.ran = tmo.seconds
                /\ tmo.plan[x.n].duration >= tmo.seconds
                /\ x.n < tmo.max_attempts =>
                    /\ i + 1 \in DOMAIN tmo.events
                    /\ tmo.events[i + 1].ev = "sleep"
                    /\ \/ i + 1 = Len(tmo.events) /\ tmo.pc = "sleeping"
                       \/ /\ i + 2 \in DOMAIN tmo.events
                          /\ tmo.events[i + 2] =
                                [ev |-> "call", n |-> x.n + 1, ran |-> 0,
                                 at |-> x.at + tmo.events[i + 1].ran]
                /\ x.n = tmo.max_attempts =>
                    /\ i = Len(tmo.events)
                    /\ tmo.pc = "raised"
                    /\ tmo.outcome = Raises(TimeoutToolError(tmo.seconds))
            /\ x.ev = "bound" => FALSE
    /\ \A k \in 1..tmo.max_attempts :
        (tmo.pc \in {"returned", "raised"} /\ \A j \in 1..k : tmo.plan[j].duration > tmo.seconds)
            => Cardinality({i \in ComposedStarts : tmo.events[i].n <= k}) = k

\* tool_timeout outside: one bound covers the attempts and the sleeps together
BoundOverAll ==
    /\ tmo.total <= tmo.seconds
    /\ \A i \in DOMAIN tmo.events :
        LET x == tmo.events[i]
        IN  /\ x.at <= tmo.seconds
            /\ x.ev /= "timeout"
            /\ x.ev = "bound" =>
                /\ x.at = tmo.seconds
                /\ i = Len(tmo.events)
                /\ tmo.pc = "raised"
                /\ tmo.outcome = Raises(TimeoutToolError(tmo.seconds))

\* once the one bound has fired nothing more happens in the call
NothingAfterBound ==
    (tmo.order = "timeout outside" /\ tmo.pc = "raised"
        /\ tmo.events[Len(tmo.events)].ev = "bound") => tmo' = tmo

\* C25: with tool_retry outside tool_timeout(N) every attempt has its own bound
\* of N seconds, an attempt that times out is a failed attempt, retried after
\* the sleep while attempts remain, and when the last attempt times out the
\* caller gets its TIMEOUT_ERROR ToolError; with tool_timeout(N) outside
\* tool_retry one bound covers attempts and sleeps together, and once it fires,
\* during an attempt or a sleep, no attempt is started any more and the caller
\* gets TIMEOUT_ERROR.
C25_CompositionOrder ==
    /\ [](tmo.order = "retry outside" => BoundPerAttempt)
    /\ [](tmo.order = "timeout outside" => BoundOverAll)
    /\ [][NothingAfterBound]_vars

\* tool_retry outside: both attempts ran their 2 seconds and timed out, with a
\* sleep between them: 5 seconds in all under a bound of 2
C25_Witness ==
    /\ tmo.order = "retry outside"
    /\ tmo.pc = "raised"
    /\ tmo.seconds = 2
    /\ tmo.delay = 1
    /\ tmo.total = 5
    /\ tmo.attempt = 1
    /\ tmo.outcome = Raises(TimeoutToolError(2))

-----------------------------------------------------------------------------
(* tool_timeout around an operation that raises asyncio.TimeoutError itself *)

\* the wrapper has raised its ToolError
ReportedTimeout ==
    /\ tmo.pc = "raised"
    /\ tmo.outcome = Raises(TimeoutToolError(tmo.seconds))

\* C26: the wrapper raises the ToolError with code "TIMEOUT_ERROR" only when
\* the N seconds had elapsed before the operation completed; an operation that
\* raises asyncio.TimeoutError itself before N seconds have elapsed has its own
\* exception propagated by the wrapper.
C26_TimeoutOnlyWhenElapsed ==
    /\ ReportedTimeout => (tmo.at >= tmo.seconds /\ tmo.op = "cancelled")
    /\ (TimeoutFinished /\ OwnTimeout /\ tmo.duration < tmo.seconds) =>
           tmo.outcome = tmo.ending

\* the operation raised asyncio.TimeoutError after 1 of the 2 seconds and the
\* wrapper reported a timeout of 2 seconds
C26_OwnTimeoutReported ==
    /\ ReportedTimeout
    /\ OwnTimeout
    /\ tmo.seconds = 2
    /\ tmo.duration = 1
    /\ tmo.at = 1
    /\ tmo.op = "done"

-----------------------------------------------------------------------------
(* tool_retry with max_attempts <= 0 *)

\* the wrapper returned a value to its caller
WrapperReturned == r_pc = "returned" \/ r_outcome.kind = "return"

\* C27: for max_attempts <= 0 the operation is never invoked and the wrapper
\* does not return a value: the call ends with the error of raising a last
\* exception that was never recorded; so the wrapper never returns unless the
\* operation returned normally.
C27_NoAttemptsRaises ==
    /\ (RetryStarted /\ max_attempts <= 0) =>
        /\ r_events = <<>>
        /\ last_exception = PyNone
        /\ r_pc = "raised"
        /\ r_outcome = Raises(RaiseNone)
        /\ r_outcome.exc.exc.cls = "TypeError"
    /\ WrapperReturned =>
        /\ r_pc = "returned"
        /\ max_attempts > 0
        /\ r_events /= <<>>
        /\ r_events[Len(r_events)].ev = "return"
        /\ r_outcome = Returns(r_events[Len(r_events)].arg)

C27_Witness ==
    /\ max_attempts = -1
    /\ r_pc = "raised"
    /\ r_events = <<>>
    /\ r_outcome.kind = "raise"
    /\ r_outcome.exc = RaiseNone

-----------------------------------------------------------------------------
(* simulate_async_work: the durations its body accepts, under @tool_timeout(10) *)

SimulateFinished ==
    /\ reg.input.tool = "simulate_async_work"
    /\ reg.pc \in {"returned", "raised"}

\* C28: simulate_async_work accepts every duration from 0 to 30: with
\* should_fail false it returns a success mapping after the simulated work;
\* a duration above 30 is rejected with DURATION_TOO_LONG and a negative one
\* with INVALID_DURATION; the timeout of 10 seconds never preempts an accepted
\* duration.
C28_AcceptedDurationsSucceed ==
    SimulateFinished =>
        /\ (0 <= reg.input.duration /\ reg.input.duration <= 30 /\ ~reg.input.should_fail) =>
            /\ reg.pc = "returned"
            /\ reg.outcome = SimulateAfterSleep(FALSE)
        /\ reg.input.duration > 30 =>
            reg.outcome = ToolRaises("Duration too long (max 30 seconds)", "DURATION_TOO_LONG")
        /\ reg.input.duration < 0 =>
            reg.outcome = ToolRaises("Duration cannot be negative", "INVALID_DURATION")

\* a duration of 20 seconds, which the body accepts, ended in TIMEOUT_ERROR
C28_AcceptedDurationTimedOut ==
    /\ SimulateFinished
    /\ reg.input.duration = 20
    /\ ~reg.input.should_fail
    /\ reg.outcome = Raises(TimeoutToolError(SimulateTimeout))

-----------------------------------------------------------------------------
(* server.py: MCPServerTemplate and create_server on the module's            *)
(* server_instance.  A FastMCP instance is the number of its creation, None  *)
(* is 0.  A call of initialize is given by the step at which it raises, if   *)
(* any; the calls are made one after the other.                              *)

MaxServerCalls == 3

LoadedComponents == {"tools", "resources", "prompts"}

\* where initialize may raise
InitializeFailures == {"none", "FastMCP", "load_components", "health_monitoring"}

\* MCPServerTemplate(), with the two settings initialize reads
ServerInputs ==
    {[mcp |-> 0, is_initialized |-> FALSE, created |-> 0, loaded |-> {},
      ENABLE_HEALTH_CHECK |-> h, ENABLE_METRICS |-> m, log |-> <<>>] :
        h \in BOOLEAN, m \in BOOLEAN}

\* what initialize has set up on self.mcp when it set is_initialized
SetUp(s) ==
    LoadedComponents
        \cup (IF s.ENABLE_HEALTH_CHECK THEN {"health_check"} ELSE {})
        \cup (IF s.ENABLE_METRICS THEN {"metrics"} ELSE {})

\* initialize, raising at `fail`: the fields of the server when it ends
Initialize(s, fail) ==
    IF fail = "FastMCP" THEN s
    ELSE LET made == [s EXCEPT !.mcp = s.created + 1, !.created = @ + 1, !.loaded = {}]
         IN  IF fail = "load_components" THEN [made EXCEPT !.loaded = {"tools"}]
             ELSE IF fail = "health_monitoring" /\ s.ENABLE_HEALTH_CHECK
             THEN [made EXCEPT !.loaded = LoadedComponents]
             ELSE [made EXCEPT !.loaded = SetUp(s), !.is_initialized = TRUE]

\* initialize raised
InitializeRaised(s, fail) ==
    fail \in {"FastMCP", "load_components"} \/ (fail = "health_monitoring" /\ s.ENABLE_HEALTH_CHECK)

\* a create_server that runs initialize on every call
CreateServerInitializes_Always(is_initialized) == TRUE

\* if not server_instance.is_initialized
CreateServerInitializes(is_initialized) == ~is_initialized

\* the record of a call in the log
ServerCall(op, ran, raised, before, after) ==
    [op |-> op, ran |-> ran, raised |-> raised, before |-> before.is_initialized,
     is_initialized |-> after.is_initialized, mcp |-> after.mcp, loaded |-> after.loaded]

\* await server_instance.initialize()
ServerInitialize ==
    /\ Len(ldr.log) < MaxServerCalls
    /\ \E fail \in InitializeFailures :
        LET after == Initialize(ldr, fail)
        IN  ldr' = [after EXCEPT !.log = Append(@, ServerCall("initialize", TRUE,
                                                   InitializeRaised(ldr, fail), ldr, after))]
    /\ UNCHANGED <<callVars, retryVars, tmo, vrp, fmt, conc, reg, hc, stats>>

\* await server_instance.cleanup()
ServerCleanup ==
    /\ Len(ldr.log) < MaxServerCalls
    /\ LET after == [ldr EXCEPT !.is_initialized = FALSE]
       IN  ldr' = [after EXCEPT !.log = Append(@, ServerCall("cleanup", FALSE, FALSE, ldr, after))]
    /\ UNCHANGED <<callVars, retryVars, tmo, vrp, fmt, conc, reg, hc, stats>>

\* create_server(): initialize under run_until_complete when not initialized,
\* then return server_instance.mcp; an exception of initialize leaves create_server
CreateServer ==
    /\ Len(ldr.log) < MaxServerCalls
    /\ IF CreateServerInitializes(ldr.is_initialized)
       THEN \E fail \in InitializeFailures :
               LET after == Initialize(ldr, fail)
               IN  ldr' = [after EXCEPT !.log = Append(@, ServerCall("create_server", TRUE,
                                                          InitializeRaised(ldr, fail), ldr, after))]
       ELSE ldr' = [ldr EXCEPT !.log = Append(@, ServerCall("create_server", FALSE, FALSE,
                                                            ldr, ldr))]
    /\ UNCHANGED <<callVars, retryVars, tmo, vrp, fmt, conc, reg, hc, stats>>

NextServer ==
    \/ ServerInitialize
    \/ ServerCleanup
    \/ CreateServer

ServerInit ==
    /\ InitCall
    /\ NoRetry
    /\ tmo = Unused
    /\ vrp = Unused
    /\ fmt = Unused
    /\ conc = Unused
    /\ reg = Unused
    /\ hc = Unused
    /\ ldr \in ServerInputs
    /\ stats = Unused

SpecServer == ServerInit /\ [][NextServer]_vars

\* is_initialized through the life of the server
LifecycleFlag ==
    /\ ldr.log = <<>> => (~ldr.is_initialized /\ ldr.mcp = 0)
    /\ ldr.is_initialized => ldr.mcp /= 0
    /\ \A i \in DOMAIN ldr.log :
        LET x == ldr.log[i]
        IN  /\ (x.is_initialized /\ ~x.before) =>
                (x.ran /\ ~x.raised /\ x.loaded = SetUp(ldr) /\ x.mcp /= 0)
            /\ (x.raised /\ ~x.before) => ~x.is_initialized
            /\ x.op = "cleanup" => ~x.is_initialized
            /\ x.op = "create_server" => (x.ran <=> ~x.before)

CreateServerCalls == {i \in DOMAIN ldr.log : ldr.log[i].op = "create_server"}

\* repeated calls of create_server run initialize once and return one instance
C29_CreateServerOnce ==
    /\ LifecycleFlag
    /\ \A i, j \in CreateServerCalls :
        i < j => (~ldr.log[j].ran /\ ~ldr.log[j].raised /\ ldr.log[j].mcp = ldr.log[i].mcp)

\* C29: is_initialized is false at construction, becomes true only when
\* initialize has loaded all components (and set up health monitoring and
\* metrics when enabled) without raising, stays false when initialize raises,
\* is false after cleanup, and implies that mcp is set; create_server runs
\* initialize exactly when is_initialized is false, so a create_server that
\* follows a create_server that returned, with no other call of initialize or
\* cleanup between them, does not run initialize and returns the same instance.
C29_Lifecycle ==
    /\ LifecycleFlag
    /\ \A i, j \in CreateServerCalls :
        (j = i + 1 /\ ~ldr.log[i].raised) =>
            (~ldr.log[j].ran /\ ~ldr.log[j].raised /\ ldr.log[j].mcp = ldr.log[i].mcp)

\* create_server, cleanup, create_server: the server is initialized on a
\* second FastMCP instance
C29_Witness ==
    /\ Len(ldr.log) = 3
    /\ ldr.log[1].op = "create_server" /\ ldr.log[1].mcp = 1 /\ ldr.log[1].is_initialized
    /\ ldr.log[2].op = "cleanup" /\ ~ldr.log[2].is_initialized
    /\ ldr.log[3].op = "create_server" /\ ldr.log[3].ran /\ ldr.log[3].mcp = 2
    /\ ldr.is_initialized
    /\ ldr.ENABLE_HEALTH_CHECK
    /\ "health_check" \in ldr.loaded

-----------------------------------------------------------------------------
(* check_system_resources when the sampling fails *)

\* run_all_checks has run the three checks
ChecksRun == hc.pc \in {"checked", "exited"}

\* psutil is missing or a reading raised
SamplingFailed == hc.psutil /= "ok"

\* C30: a failure while sampling the system resources never by itself makes
\* the verdict unhealthy: check_system_resources reports warning when psutil is
\* missing or the sampling raises, unhealthy only when memory or CPU usage is
\* above 95%, warning when one is above 80% and none above 95%, and healthy
\* otherwise.
C30_SamplingFailureWarns ==
    ChecksRun =>
        LET resources == hc.checks[3]
            high == hc.memory_percent > 95 \/ hc.cpu_percent > 95
            moderate == hc.memory_percent > 80 \/ hc.cpu_percent > 80
        IN  /\ SamplingFailed =>
                /\ resources = "warning"
                /\ hc.overall_status = "unhealthy" =>
                       (hc.checks[1] = "unhealthy" \/ hc.checks[2] = "unhealthy")
                /\ (hc.checks[1] = "healthy" /\ hc.checks[2] = "healthy") =>
                       /\ hc.overall_status = "warning"
                       /\ (hc.pc = "exited" /\ ~hc.fails) => hc.exit = 0
            /\ ~SamplingFailed =>
                /\ resources = "unhealthy" <=> high
                /\ resources = "warning" <=> (moderate /\ ~high)
                /\ resources = "healthy" <=> ~moderate

\* the sampling raised on a machine whose readings would have been above 95%:
\* the verdict is a warning
C30_Witness ==
    /\ hc.pc = "checked"
    /\ hc.psutil = "Exception"
    /\ hc.memory_percent = 96
    /\ hc.http = "200"
    /\ hc.mcp = "ok"
    /\ hc.checks[3] = "warning"
    /\ hc.overall_status = "warning"

=============================================================================
